---------------------------- MODULE Spec2Model ----------------------------
(***************************************************************************)
(* A model of the algorithmic core of merge-tool: the line differ, the      *)
(* line aligner and the directory comparison (src/src/diff_engine.py),     *)
(* the three-way merge session (src/src/gui/three_way_merge.py), the       *)
(* folder synchronizer (src/src/utils/sync_manager.py) and merge_files     *)
(* (src/src/utils/file_ops.py).                                            *)
(*                                                                         *)
(* Text is modelled as it is in Python: a string is a sequence of          *)
(* one-character strings, a list of lines a sequence of such strings.      *)
(* Python slices s[lo:hi] are 0-based and half-open; Slice keeps that      *)
(* convention so that indices in the model are the indices of the code.    *)
(***************************************************************************)
EXTENDS Integers, Sequences, FiniteSets, TLC

VARIABLES
    \* ---- line differ (DiffResult.from_files, DiffEngine.get_unified_diff)
    left_lines,       \* the caller's left line list
    right_lines,      \* the caller's right line list
    ignore_options,   \* the IgnoreOptions passed to the last compare (or NoOptions)
    diff_result,      \* the DiffResult returned by the last compare
    unified,          \* the list returned by the last get_(context_)unified_diff
    context_n,        \* the n of the last unified diff
    diff_pc,          \* "input" | "compared" | "unified" | "idle"
    \* ---- three-way merge session (ThreeWayMergeView)
    merged_content,   \* self._merged_content, a string
    conflicts,        \* self._conflicts, a list of ConflictMarker
    current_index,    \* self._current_conflict_index
    loaded_content,   \* self._left_content: the text the session was loaded with
    last_op,          \* the last handler that ran, with its arguments and early-return flag
    resolves,         \* number of resolve calls that went through since the last load
    \* ---- folder synchronizer (SyncManager)
    sync_left,        \* what is on disk at left_path
    sync_right,       \* what is on disk at right_path
    sync_callback,    \* self._conflict_callback
    sync_call,        \* the last call of preview_sync / sync_folders and its arguments
    sync_return,      \* what that call returned or raised, and the trees it found
    sync_pc,          \* "input" | "previewed" | "synced" | "idle"
    \* ---- line aligner (LineAligner.align_lines as DiffView.align_lines calls it)
    align_left,       \* left_lines
    align_right,      \* right_lines
    align_input,      \* the DiffResult given to align_lines
    align_output,     \* the DiffResult it returned
    align_pc,         \* "input" | "aligned" | "idle"
    \* ---- directory comparison (DirectoryDiffEngine.compare_directories)
    dir_left,         \* what is on disk at left_path
    dir_right,        \* what is on disk at right_path
    dir_return,       \* the DirectoryDiffResult of the last call
    dir_pc,           \* "input" | "compared" | "idle"
    \* ---- merging two texts into a file (utils/file_ops.py merge_files)
    fo_left,          \* left_content
    fo_right,         \* right_content
    fo_output,        \* the content of the file at output_path, or NoFile
    fo_backup,        \* the content of the backup made of it, or NoFile
    fo_result,        \* the MergeResult of the last call
    fo_pc,            \* "input" | "merged" | "idle"
    \* ---- undo / redo history (utils/file_ops.py UndoRedoManager)
    _undo_stack,      \* self._undo_stack, oldest first
    _redo_stack,      \* self._redo_stack
    _max_history,     \* self._max_history
    history_calls,    \* the calls made since construction, each with what it returned
    history_before,   \* the two stacks before each of the calls
    \* ---- inline diff (diff_engine.py InlineDiffResult)
    inline_left,      \* left_lines given to InlineDiffResult.from_lines
    inline_right,     \* right_lines given to it
    inline_options,   \* ignore_options given to it
    inline_result,    \* the InlineDiffResult returned
    inline_pc         \* "input" before the call, "done" after it

diff_vars == <<left_lines, right_lines, ignore_options, diff_result, unified,
               context_n, diff_pc>>

merge_vars == <<merged_content, conflicts, current_index, loaded_content,
                last_op, resolves>>

sync_vars == <<sync_left, sync_right, sync_callback, sync_call, sync_return, sync_pc>>

align_vars == <<align_left, align_right, align_input, align_output, align_pc>>

dir_vars == <<dir_left, dir_right, dir_return, dir_pc>>

fo_vars == <<fo_left, fo_right, fo_output, fo_backup, fo_result, fo_pc>>

history_vars == <<_undo_stack, _redo_stack, _max_history, history_calls, history_before>>

inline_vars == <<inline_left, inline_right, inline_options, inline_result, inline_pc>>

vars == <<diff_vars, merge_vars, sync_vars, align_vars, dir_vars, fo_vars, history_vars, inline_vars>>

\* the variables of the other components, which a component's calls leave alone
not_diff_vars == <<merge_vars, sync_vars, align_vars, dir_vars, fo_vars, history_vars, inline_vars>>

not_merge_vars == <<diff_vars, sync_vars, align_vars, dir_vars, fo_vars, history_vars, inline_vars>>

not_sync_vars == <<diff_vars, merge_vars, align_vars, dir_vars, fo_vars, history_vars, inline_vars>>

not_align_vars == <<diff_vars, merge_vars, sync_vars, dir_vars, fo_vars, history_vars, inline_vars>>

not_dir_vars == <<diff_vars, merge_vars, sync_vars, align_vars, fo_vars, history_vars, inline_vars>>

not_fo_vars == <<diff_vars, merge_vars, sync_vars, align_vars, dir_vars, history_vars, inline_vars>>

not_history_vars == <<diff_vars, merge_vars, sync_vars, align_vars, dir_vars, fo_vars, inline_vars>>

not_inline_vars == <<diff_vars, merge_vars, sync_vars, align_vars, dir_vars, fo_vars, history_vars>>

\* the synchronizer is not in use
SyncIdle ==
    /\ sync_left = <<>>
    /\ sync_right = <<>>
    /\ sync_callback = "None"
    /\ sync_call = <<>>
    /\ sync_return = <<>>
    /\ sync_pc = "idle"

\* the aligner is not in use
AlignIdle ==
    /\ align_left = <<>>
    /\ align_right = <<>>
    /\ align_input = <<>>
    /\ align_output = <<>>
    /\ align_pc = "idle"

\* no directory comparison is made
DirIdle ==
    /\ dir_left = <<>>
    /\ dir_right = <<>>
    /\ dir_return = <<>>
    /\ dir_pc = "idle"

\* no merge into a file is made
FileOpsIdle ==
    /\ fo_left = <<>>
    /\ fo_right = <<>>
    /\ fo_output = <<>>
    /\ fo_backup = <<>>
    /\ fo_result = <<>>
    /\ fo_pc = "idle"

\* undo / redo history (utils/file_ops.py UndoRedoManager): not in use
HistoryIdle ==
    /\ _undo_stack = <<>>
    /\ _redo_stack = <<>>
    /\ _max_history = 0
    /\ history_calls = <<>>
    /\ history_before = <<>>

\* inline diff (diff_engine.py InlineDiffResult): not in use
InlineIdle ==
    /\ inline_left = <<>>
    /\ inline_right = <<>>
    /\ inline_options = <<>>
    /\ inline_result = <<>>
    /\ inline_pc = "idle"

-----------------------------------------------------------------------------
(* Bounds of the model. *)

\* longest line list given to the differ
MaxLines == 3

\* longest merge text, in lines, a new session is loaded with
MaxMergeLines == 5

\* longest merge text, in lines, of a session whose conflicts are resolved
\* until none is left
MaxResolvingLines == 4

\* largest max_history an UndoRedoManager is built with
MaxHistory == 3

\* most calls made on one UndoRedoManager
MaxCalls == 6

-----------------------------------------------------------------------------
(* Python built-ins used by the code. *)

\* Optional[int] = None for a line number; real line numbers start at 1
NoLine == 0

Max(x, y) == IF x >= y THEN x ELSE y

Min(x, y) == IF x <= y THEN x ELSE y

\* F(v), with v evaluated once however often F uses it
Bind(v, F(_)) == CHOOSE y \in {F(x) : x \in {v}} : TRUE

\* s[lo:hi] for 0 <= lo, hi within or beyond the sequence
Slice(s, lo, hi) == SubSeq(s, lo + 1, Min(hi, Len(s)))

\* s.startswith(prefix)
StartsWith(s, prefix) ==
    /\ Len(s) >= Len(prefix)
    /\ SubSeq(s, 1, Len(prefix)) = prefix

\* the 1-based index of the first occurrence of pat in s at or after from; 0 if none
FindSub(s, pat, from) ==
    LET hits == {i \in from..(Len(s) - Len(pat) + 1) :
                    SubSeq(s, i, i + Len(pat) - 1) = pat}
    IN  IF hits = {} THEN 0 ELSE CHOOSE i \in hits : \A k \in hits : i <= k

\* the characters str.strip() removes (ASCII whitespace)
Whitespace == {" ", "\t", "\n", "\r", "\f"}

\* s.strip()
Strip(s) ==
    LET keep == {i \in 1..Len(s) : s[i] \notin Whitespace}
    IN  IF keep = {} THEN <<>>
        ELSE LET lo == CHOOSE i \in keep : \A k \in keep : i <= k
                 hi == CHOOSE i \in keep : \A k \in keep : i >= k
             IN  SubSeq(s, lo, hi)

UpperChars == <<"A","B","C","D","E","F","G","H","I","J","K","L","M",
                "N","O","P","Q","R","S","T","U","V","W","X","Y","Z">>

LowerChars == <<"a","b","c","d","e","f","g","h","i","j","k","l","m",
                "n","o","p","q","r","s","t","u","v","w","x","y","z">>

UpperSet == {UpperChars[k] : k \in 1..Len(UpperChars)}

\* s.lower() on ASCII text
Lower(s) ==
    [i \in 1..Len(s) |->
        IF s[i] \in UpperSet
        THEN LowerChars[CHOOSE k \in 1..Len(UpperChars) : UpperChars[k] = s[i]]
        ELSE s[i]]

\* sep.join(parts), for a list of strings
RECURSIVE Join(_, _)
Join(parts, sep) ==
    IF parts = <<>> THEN <<>>
    ELSE IF Len(parts) = 1 THEN parts[1]
    ELSE parts[1] \o sep \o Join(Tail(parts), sep)

\* s.split(sep): never empty, ''.split(sep) == ['']
RECURSIVE Split(_, _)
Split(s, sep) ==
    Bind(s, LAMBDA x : Bind(FindSub(x, sep, 1), LAMBDA i :
        IF i = 0 THEN <<x>>
        ELSE <<SubSeq(x, 1, i - 1)>> \o Split(SubSeq(x, i + Len(sep), Len(x)), sep)))

\* the strings of at most n elements of S
RECURSIVE SeqsUpTo(_, _)
SeqsUpTo(S, n) ==
    IF n = 0 THEN {<<>>}
    ELSE LET shorter == SeqsUpTo(S, n - 1)
         IN  shorter \cup {Append(s, x) : s \in {t \in shorter : Len(t) = n - 1}, x \in S}

-----------------------------------------------------------------------------
(* IgnoreOptions.preprocess_line, diff_engine.py 31-65. *)

\* ignore_options = None
NoOptions == [none |-> TRUE]

\* re.sub(marker + '.*$', '', s, flags=re.DOTALL): cut at the first marker
CutFrom(s, marker) ==
    LET i == FindSub(s, marker, 1)
    IN  IF i = 0 THEN s ELSE SubSeq(s, 1, i - 1)

\* re.sub(open + '.*?' + close, '', s, flags=re.DOTALL): drop every shortest
\* open...close span, left to right
RECURSIVE RemoveSpans(_, _, _)
RemoveSpans(s, open, close) ==
    LET i == FindSub(s, open, 1)
        j == IF i = 0 THEN 0 ELSE FindSub(s, close, i + Len(open))
    IN  IF j = 0 THEN s
        ELSE SubSeq(s, 1, i - 1)
                \o RemoveSpans(SubSeq(s, j + Len(close), Len(s)), open, close)

_remove_comments(line) ==
    LET r1 == CutFrom(line, <<"/", "/">>)
        r2 == RemoveSpans(r1, <<"/", "*">>, <<"*", "/">>)
        r3 == CutFrom(r2, <<"#">>)
        r4 == CutFrom(r3, <<"-", "-">>)
        r5 == CutFrom(r4, <<";">>)
    IN  RemoveSpans(r5, <<"<", "!", "-", "-">>, <<"-", "-", ">">>)

preprocess_line(opts, line) ==
    IF opts.ignore_blank_lines /\ Strip(line) = <<>> THEN <<>>
    ELSE LET p1 == IF opts.ignore_comments THEN _remove_comments(line) ELSE line
             p2 == IF opts.ignore_whitespace THEN Strip(p1) ELSE p1
         IN  IF opts.ignore_case THEN Lower(p2) ELSE p2

\* the lines callers pass: empty, plain, and one that every option changes
LineSet == { <<>>, <<"a">>, <<" ", "A", "#">> }

IgnoreOptions(ws, case, blank, comments) ==
    [ignore_whitespace |-> ws, ignore_case |-> case,
     ignore_blank_lines |-> blank, ignore_comments |-> comments]

\* the IgnoreOptions instances callers pass: the default one, each option
\* alone, and all four together
OptionInstances ==
    { IgnoreOptions(FALSE, FALSE, FALSE, FALSE),
      IgnoreOptions(TRUE, FALSE, FALSE, FALSE),
      IgnoreOptions(FALSE, TRUE, FALSE, FALSE),
      IgnoreOptions(FALSE, FALSE, TRUE, FALSE),
      IgnoreOptions(FALSE, FALSE, FALSE, TRUE),
      IgnoreOptions(TRUE, TRUE, TRUE, TRUE) }

\* ignore_options: an instance, or None
OptionSet == {NoOptions} \cup OptionInstances

\* preprocess_line on the lines of LineSet, evaluated once per option and line
PreprocessedLine == [o \in OptionInstances |-> [l \in LineSet |-> preprocess_line(o, l)]]

\* lines 94-96 of from_files: the lists the matcher and the loop then work on
Preprocessed(lines, opts) ==
    IF opts = NoOptions THEN lines
    ELSE [i \in 1..Len(lines) |->
            IF opts \in OptionInstances /\ lines[i] \in LineSet
            THEN PreprocessedLine[opts][lines[i]]
            ELSE preprocess_line(opts, lines[i])]

-----------------------------------------------------------------------------
(* difflib.SequenceMatcher(None, a, b) as from_files uses it (line 98).     *)
(* No junk predicate is given and the automatic junk heuristic only acts    *)
(* on a second sequence of 200 or more elements, above the model's bounds.  *)

\* length of the common run a[i:], b[j:] inside a[:ahi], b[:bhi]
RECURSIVE RunFrom(_, _, _, _, _, _)
RunFrom(a, b, i, j, ahi, bhi) ==
    IF i < ahi /\ j < bhi /\ a[i + 1] = b[j + 1]
    THEN 1 + RunFrom(a, b, i + 1, j + 1, ahi, bhi)
    ELSE 0

\* find_longest_match with the tie among the longest blocks broken the other
\* way in b: the latest one
find_longest_match_latest(a, b, alo, ahi, blo, bhi) ==
    LET starts == (alo..(ahi - 1)) \X (blo..(bhi - 1))
        size == [p \in starts |-> RunFrom(a, b, p[1], p[2], ahi, bhi)]
        best == IF starts = {} THEN 0
                ELSE size[CHOOSE p \in starts : \A q \in starts : size[p] >= size[q]]
        longest == {p \in starts : size[p] = best}
        first == CHOOSE p \in longest :
                    \A q \in longest : p[1] < q[1] \/ (p[1] = q[1] /\ p[2] >= q[2])
    IN  IF best = 0 THEN <<alo, blo, 0>> ELSE <<first[1], first[2], best>>

\* find_longest_match: the longest block, the earliest in a, then the earliest in b
find_longest_match(a, b, alo, ahi, blo, bhi) ==
    LET starts == (alo..(ahi - 1)) \X (blo..(bhi - 1))
        size == [p \in starts |-> RunFrom(a, b, p[1], p[2], ahi, bhi)]
        best == IF starts = {} THEN 0
                ELSE size[CHOOSE p \in starts : \A q \in starts : size[p] >= size[q]]
        longest == {p \in starts : size[p] = best}
        first == CHOOSE p \in longest :
                    \A q \in longest : p[1] < q[1] \/ (p[1] = q[1] /\ p[2] <= q[2])
    IN  IF best = 0 THEN <<alo, blo, 0>> ELSE <<first[1], first[2], best>>

\* the queue loop of get_matching_blocks followed by its sort
RECURSIVE SortedBlocks(_, _, _, _, _, _)
SortedBlocks(a, b, alo, ahi, blo, bhi) ==
    LET x == find_longest_match(a, b, alo, ahi, blo, bhi)
        i == x[1]
        j == x[2]
        k == x[3]
    IN  IF k = 0 THEN <<>>
        ELSE (IF alo < i /\ blo < j THEN SortedBlocks(a, b, alo, i, blo, j) ELSE <<>>)
             \o <<x>>
             \o (IF i + k < ahi /\ j + k < bhi
                 THEN SortedBlocks(a, b, i + k, ahi, j + k, bhi) ELSE <<>>)

\* the loop of get_matching_blocks that merges adjacent blocks; cur is (i1, j1, k1)
RECURSIVE NonAdjacent(_, _)
NonAdjacent(blocks, cur) ==
    IF blocks = <<>> THEN (IF cur[3] > 0 THEN <<cur>> ELSE <<>>)
    ELSE LET x == Head(blocks)
         IN  IF cur[1] + cur[3] = x[1] /\ cur[2] + cur[3] = x[2]
             THEN NonAdjacent(Tail(blocks), <<cur[1], cur[2], cur[3] + x[3]>>)
             ELSE (IF cur[3] > 0 THEN <<cur>> ELSE <<>>) \o NonAdjacent(Tail(blocks), x)

get_matching_blocks(a, b) ==
    Append(NonAdjacent(SortedBlocks(a, b, 0, Len(a), 0, Len(b)), <<0, 0, 0>>),
           <<Len(a), Len(b), 0>>)

Opcode(tag, i1, i2, j1, j2) == [tag |-> tag, i1 |-> i1, i2 |-> i2, j1 |-> j1, j2 |-> j2]

\* the loop of get_opcodes; (i, j) is where the previous block ended
RECURSIVE OpcodesFrom(_, _, _)
OpcodesFrom(blocks, i, j) ==
    IF blocks = <<>> THEN <<>>
    ELSE LET ai == Head(blocks)[1]
             bj == Head(blocks)[2]
             size == Head(blocks)[3]
             gap == IF i < ai /\ j < bj THEN <<Opcode("replace", i, ai, j, bj)>>
                    ELSE IF i < ai THEN <<Opcode("delete", i, ai, j, bj)>>
                    ELSE IF j < bj THEN <<Opcode("insert", i, ai, j, bj)>>
                    ELSE <<>>
             eq == IF size > 0 THEN <<Opcode("equal", ai, ai + size, bj, bj + size)>>
                   ELSE <<>>
         IN  gap \o eq \o OpcodesFrom(Tail(blocks), ai + size, bj + size)

get_opcodes(a, b) == OpcodesFrom(get_matching_blocks(a, b), 0, 0)

-----------------------------------------------------------------------------
(* DiffResult.from_files, diff_engine.py 90-157. *)

DiffLine(type, content, left_line_num, right_line_num) ==
    [type |-> type, content |-> content,
     left_line_num |-> left_line_num, right_line_num |-> right_line_num]

\* the accumulators of from_files before the loop (lines 99-102)
EmptyResult ==
    [lines |-> <<>>, left_line_count |-> 0, right_line_count |-> 0, change_count |-> 0]

\* EqualLine with the counters advanced for every line, numbered or not
EqualLineCounted(acc, line) ==
    [acc EXCEPT
        !.lines = Append(@, DiffLine("equal", line,
                    IF line # <<>> THEN acc.left_line_count + 1 ELSE NoLine,
                    IF line # <<>> THEN acc.right_line_count + 1 ELSE NoLine)),
        !.left_line_count = @ + 1,
        !.right_line_count = @ + 1]

\* lines 106-114: an equal line; an empty line gets no numbers and is not counted
EqualLine(acc, line) ==
    [acc EXCEPT
        !.lines = Append(@, DiffLine("equal", line,
                    IF line # <<>> THEN acc.left_line_count + 1 ELSE NoLine,
                    IF line # <<>> THEN acc.right_line_count + 1 ELSE NoLine)),
        !.left_line_count = @ + (IF line # <<>> THEN 1 ELSE 0),
        !.right_line_count = @ + (IF line # <<>> THEN 1 ELSE 0)]

\* lines 116-123: an inserted line
InsertLine(acc, line) ==
    [acc EXCEPT
        !.lines = Append(@, DiffLine("insert", line, NoLine, acc.right_line_count + 1)),
        !.right_line_count = @ + 1,
        !.change_count = @ + 1]

\* lines 125-132: a deleted line
DeleteLine(acc, line) ==
    [acc EXCEPT
        !.lines = Append(@, DiffLine("delete", line, acc.left_line_count + 1, NoLine)),
        !.left_line_count = @ + 1,
        !.change_count = @ + 1]

\* lines 136-149: one round idx of the replace loop, the left line then the right line
ReplaceRound(acc, left_block, right_block, idx) ==
    LET a1 == IF idx < Len(left_block)
              THEN [acc EXCEPT
                      !.lines = Append(@, DiffLine("replace", left_block[idx + 1],
                                                   acc.left_line_count + 1, NoLine)),
                      !.left_line_count = @ + 1]
              ELSE acc
    IN  IF idx < Len(right_block)
        THEN [a1 EXCEPT
                !.lines = Append(@, DiffLine("replace", right_block[idx + 1],
                                             NoLine, a1.right_line_count + 1)),
                !.right_line_count = @ + 1]
        ELSE a1

RECURSIVE ReplaceRounds(_, _, _, _, _)
ReplaceRounds(acc, left_block, right_block, idx, max_lines) ==
    IF idx >= max_lines THEN acc
    ELSE ReplaceRounds(ReplaceRound(acc, left_block, right_block, idx),
                       left_block, right_block, idx + 1, max_lines)

\* ReplaceChange counting every round of the replace loop
ReplaceChangePerRound(left_block, right_block) ==
    Max(Len(left_block), Len(right_block))

\* line 150: what a replace opcode adds to change_count
ReplaceChange(left_block, right_block) == 1

\* a for loop of from_files over the lines of one block
RECURSIVE EqualLines(_, _)
EqualLines(acc, block) ==
    IF block = <<>> THEN acc ELSE EqualLines(EqualLine(acc, Head(block)), Tail(block))

RECURSIVE InsertLines(_, _)
InsertLines(acc, block) ==
    IF block = <<>> THEN acc ELSE InsertLines(InsertLine(acc, Head(block)), Tail(block))

RECURSIVE DeleteLines(_, _)
DeleteLines(acc, block) ==
    IF block = <<>> THEN acc ELSE DeleteLines(DeleteLine(acc, Head(block)), Tail(block))

\* lines 104-150: the body of the loop over the opcodes
ApplyOpcode(acc, op, left, right) ==
    LET left_block == Slice(left, op.i1, op.i2)
        right_block == Slice(right, op.j1, op.j2)
    IN  CASE op.tag = "equal" -> EqualLines(acc, left_block)
          [] op.tag = "insert" -> InsertLines(acc, right_block)
          [] op.tag = "delete" -> DeleteLines(acc, left_block)
          [] op.tag = "replace" ->
                LET r == ReplaceRounds(acc, left_block, right_block, 0,
                                       Max(Len(left_block), Len(right_block)))
                IN  [r EXCEPT !.change_count = @ + ReplaceChange(left_block, right_block)]

RECURSIVE ApplyOpcodes(_, _, _, _)
ApplyOpcodes(acc, ops, left, right) ==
    IF ops = <<>> THEN acc
    ELSE ApplyOpcodes(ApplyOpcode(acc, Head(ops), left, right), Tail(ops), left, right)

\* the content from_files gives the DiffLines: the lists after lines 94-96
DisplayLines(lines, opts) == Preprocessed(lines, opts)

from_files(left, right, opts) ==
    LET l == DisplayLines(left, opts)
        r == DisplayLines(right, opts)
    IN  ApplyOpcodes(EmptyResult, get_opcodes(l, r), l, r)

-----------------------------------------------------------------------------
(* difflib.unified_diff as DiffEngine.get_unified_diff and                 *)
(* get_context_unified_diff call it (diff_engine.py 201-231), lineterm "". *)

DigitChars == <<"0", "1", "2", "3", "4", "5", "6", "7", "8", "9">>

\* '{}'.format(n) for n >= 0
RECURSIVE Str(_)
Str(n) ==
    IF n < 10 THEN <<DigitChars[n + 1]>>
    ELSE Str(n \div 10) \o <<DigitChars[(n % 10) + 1]>>

\* the first and the last opcode trimmed to n lines of context
FixEnds(codes, n) ==
    LET c0 == IF codes = <<>> THEN <<Opcode("equal", 0, 1, 0, 1)>> ELSE codes
        f == c0[1]
        c1 == IF f.tag = "equal"
              THEN [c0 EXCEPT ![1] = Opcode(f.tag, Max(f.i1, f.i2 - n), f.i2,
                                            Max(f.j1, f.j2 - n), f.j2)]
              ELSE c0
        l == c1[Len(c1)]
    IN  IF l.tag = "equal"
        THEN [c1 EXCEPT ![Len(c1)] = Opcode(l.tag, l.i1, Min(l.i2, l.i1 + n),
                                            l.j1, Min(l.j2, l.j1 + n))]
        ELSE c1

\* the grouping loop of get_grouped_opcodes and its final yield
RECURSIVE GroupCodes(_, _, _)
GroupCodes(codes, group, n) ==
    IF codes = <<>>
    THEN (IF group # <<>> /\ ~(Len(group) = 1 /\ group[1].tag = "equal")
          THEN <<group>> ELSE <<>>)
    ELSE LET c == Head(codes)
         IN  IF c.tag = "equal" /\ c.i2 - c.i1 > n + n
             THEN <<Append(group, Opcode(c.tag, c.i1, Min(c.i2, c.i1 + n),
                                         c.j1, Min(c.j2, c.j1 + n)))>>
                  \o GroupCodes(Tail(codes),
                                <<Opcode(c.tag, Max(c.i1, c.i2 - n), c.i2,
                                         Max(c.j1, c.j2 - n), c.j2)>>, n)
             ELSE GroupCodes(Tail(codes), Append(group, c), n)

get_grouped_opcodes(a, b, n) == GroupCodes(FixEnds(get_opcodes(a, b), n), <<>>, n)

\* _format_range_unified without the step back of an empty range
FormatRangeNoStepBack(start, stop) ==
    LET length == stop - start
    IN  IF length = 1 THEN Str(start + 1)
        ELSE Str(start + 1) \o <<",">> \o Str(length)

\* difflib._format_range_unified
_format_range_unified(start, stop) ==
    LET length == stop - start
        beginning == IF length = 0 THEN start ELSE start + 1
    IN  IF length = 1 THEN Str(start + 1)
        ELSE Str(beginning) \o <<",">> \o Str(length)

Prefixed(prefix, block) == [i \in 1..Len(block) |-> <<prefix>> \o block[i]]

\* the lines unified_diff yields for one opcode of a group
OpcodeText(op, a, b) ==
    IF op.tag = "equal" THEN Prefixed(" ", Slice(a, op.i1, op.i2))
    ELSE (IF op.tag \in {"replace", "delete"}
          THEN Prefixed("-", Slice(a, op.i1, op.i2)) ELSE <<>>)
         \o (IF op.tag \in {"replace", "insert"}
             THEN Prefixed("+", Slice(b, op.j1, op.j2)) ELSE <<>>)

RECURSIVE GroupText(_, _, _)
GroupText(group, a, b) ==
    IF group = <<>> THEN <<>>
    ELSE OpcodeText(Head(group), a, b) \o GroupText(Tail(group), a, b)

\* the '@@ -r1 +r2 @@' line of a group
HunkHeader(group) ==
    LET first == group[1]
        last == group[Len(group)]
    IN  <<"@", "@", " ", "-">> \o _format_range_unified(first.i1, last.i2)
        \o <<" ", "+">> \o _format_range_unified(first.j1, last.j2)
        \o <<" ", "@", "@">>

RECURSIVE HunksText(_, _, _)
HunksText(groups, a, b) ==
    IF groups = <<>> THEN <<>>
    ELSE <<HunkHeader(Head(groups))>> \o GroupText(Head(groups), a, b)
         \o HunksText(Tail(groups), a, b)

unified_diff(a, b, fromfile, tofile, n) ==
    LET groups == get_grouped_opcodes(a, b, n)
    IN  IF groups = <<>> THEN <<>>
        ELSE << <<"-", "-", "-", " ">> \o fromfile, <<"+", "+", "+", " ">> \o tofile >>
             \o HunksText(groups, a, b)

\* the default n of difflib.unified_diff, used by get_unified_diff
DefaultContext == 3

-----------------------------------------------------------------------------
(* The differ as a state machine: a caller holds two line lists and calls  *)
(* compare_lines / from_files, get_unified_diff, get_context_unified_diff. *)
(* Each call is a function of its arguments alone and keeps nothing, so a  *)
(* call is modelled from the state that holds the caller's two lists.      *)

\* the n values passed to get_context_unified_diff
ContextSizes == {0, 1, 2}

\* the fromfile / tofile labels: the defaults of get_unified_diff
FromFile == <<>>

ToFile == <<>>

DiffInit ==
    /\ left_lines \in SeqsUpTo(LineSet, MaxLines)
    /\ right_lines \in SeqsUpTo(LineSet, MaxLines)
    /\ ignore_options = NoOptions
    /\ diff_result = EmptyResult
    /\ unified = <<>>
    /\ context_n = DefaultContext
    /\ diff_pc = "input"
    /\ merged_content = <<>>
    /\ conflicts = <<>>
    /\ current_index = -1
    /\ loaded_content = <<>>
    /\ last_op = [op |-> "init"]
    /\ resolves = 0
    /\ SyncIdle
    /\ AlignIdle
    /\ DirIdle
    /\ FileOpsIdle
    /\ HistoryIdle
    /\ InlineIdle

\* DiffEngine.compare_lines / DiffResult.from_files
CompareLines(opts) ==
    /\ diff_pc = "input"
    /\ diff_result' = from_files(left_lines, right_lines, opts)
    /\ ignore_options' = opts
    /\ unified' = <<>>
    /\ context_n' = DefaultContext
    /\ diff_pc' = "compared"
    /\ UNCHANGED <<left_lines, right_lines, not_diff_vars>>

\* DiffEngine.get_unified_diff
GetUnifiedDiff ==
    /\ diff_pc = "input"
    /\ unified' = unified_diff(left_lines, right_lines, FromFile, ToFile, DefaultContext)
    /\ context_n' = DefaultContext
    /\ diff_result' = EmptyResult
    /\ ignore_options' = NoOptions
    /\ diff_pc' = "unified"
    /\ UNCHANGED <<left_lines, right_lines, not_diff_vars>>

\* DiffEngine.get_context_unified_diff
GetContextUnifiedDiff(n) ==
    /\ diff_pc = "input"
    /\ unified' = unified_diff(left_lines, right_lines, FromFile, ToFile, n)
    /\ context_n' = n
    /\ diff_result' = EmptyResult
    /\ ignore_options' = NoOptions
    /\ diff_pc' = "unified"
    /\ UNCHANGED <<left_lines, right_lines, not_diff_vars>>

DiffNext ==
    \/ \E opts \in OptionSet : CompareLines(opts)
    \/ GetUnifiedDiff
    \/ \E n \in ContextSizes : GetContextUnifiedDiff(n)

SpecDiff == DiffInit /\ [][DiffNext]_vars

-----------------------------------------------------------------------------
(* The merge session, three_way_merge.py: ConflictMarker (84-100) and      *)
(* ThreeWayMergeView (257-443).                                            *)

Newline == <<"\n">>

StartMarker == <<"<", "<", "<", "<", "<", "<", "<">>

MiddleMarker == <<"=", "=", "=", "=", "=", "=", "=">>

EndMarker == <<">", ">", ">", ">", ">", ">", ">">>

\* ConflictMarker.CONFLICT_START
CONFLICT_START == StartMarker \o <<" ", "H", "E", "A", "D">>

\* ConflictMarker.resolution = None
NoResolution == "None"

ConflictMarker(start_line, end_line, left_content, right_content) ==
    [start_line |-> start_line, end_line |-> end_line,
     left_content |-> left_content, right_content |-> right_content,
     resolution |-> NoResolution]

has_resolution(c) == c.resolution # NoResolution

\* s.replace(old, new)
RECURSIVE ReplaceAll(_, _, _)
ReplaceAll(s, old, new) ==
    LET i == FindSub(s, old, 1)
    IN  IF i = 0 THEN s
        ELSE SubSeq(s, 1, i - 1) \o new
             \o ReplaceAll(SubSeq(s, i + Len(old), Len(s)), old, new)

\* lines 317-330: a line inside a conflict that the first three branches left
CollectLine(st, line) ==
    IF ~StartsWith(line, MiddleMarker)
    THEN IF ~StartsWith(line, EndMarker)
         THEN IF st.left_lines # <<>> \/ ~StartsWith(line, StartMarker)
              THEN IF ~StartsWith(line, StartMarker)
                   THEN IF st.right_lines = <<>>
                        THEN IF ~StartsWith(line, MiddleMarker)
                             THEN [st EXCEPT !.left_lines = Append(@, line)]
                             ELSE st
                        ELSE [st EXCEPT !.right_lines = Append(@, line)]
                   ELSE [st EXCEPT !.left_lines =
                            Append(@, Strip(ReplaceAll(line, CONFLICT_START, <<>>)))]
              ELSE st
         ELSE st
    ELSE st

\* lines 299-330: the body of the scan loop for line number i (0-based)
ScanLine(st, i, line) ==
    IF StartsWith(line, StartMarker)
    THEN [st EXCEPT !.in_conflict = TRUE, !.conflict_start = i,
                    !.left_lines = <<>>, !.right_lines = <<>>]
    ELSE IF st.in_conflict /\ StartsWith(line, MiddleMarker)
    THEN st
    ELSE IF st.in_conflict /\ StartsWith(line, EndMarker)
    THEN [st EXCEPT !.in_conflict = FALSE,
                    !.found = Append(@, ConflictMarker(st.conflict_start, i,
                                            Join(st.left_lines, Newline),
                                            Join(st.right_lines, Newline))),
                    !.left_lines = <<>>, !.right_lines = <<>>]
    ELSE IF st.in_conflict
    THEN CollectLine(st, line)
    ELSE st

RECURSIVE ScanFrom(_, _, _)
ScanFrom(st, lines, i) ==
    IF i >= Len(lines) THEN st
    ELSE Bind(ScanLine(st, i, lines[i + 1]), LAMBDA next : ScanFrom(next, lines, i + 1))

\* lines 291-296: the locals of _detect_conflicts before the loop
ScanStart ==
    [found |-> <<>>, in_conflict |-> FALSE, conflict_start |-> -1,
     left_lines |-> <<>>, right_lines |-> <<>>]

\* _detect_conflicts: the new self._conflicts and self._current_conflict_index
_detect_conflicts(content) ==
    Bind(Split(content, Newline), LAMBDA lines :
        Bind(ScanFrom(ScanStart, lines, 0).found, LAMBDA found :
            [conflicts |-> found,
             current_index |-> IF found = <<>> THEN -1 ELSE 0]))

\* a replacement that is the start marker again
NewContentStartsConflict(conflict, resolution) == CONFLICT_START

\* lines 374-379: the text that replaces the conflict
NewContent(conflict, resolution) ==
    IF resolution = "left" THEN conflict.left_content
    ELSE IF resolution = "right" THEN conflict.right_content
    ELSE conflict.left_content \o Newline \o conflict.right_content

\* RewriteContent with the slice one line short: the end marker stays
RewriteContentKeepsEnd(content, conflict, resolution) ==
    LET lines == Split(content, Newline)
        new_content == NewContent(conflict, resolution)
        new_lines == IF conflict.start_line < Len(lines)
                     THEN Slice(lines, 0, conflict.start_line) \o <<new_content>>
                          \o Slice(lines, conflict.end_line, Len(lines))
                     ELSE lines
    IN  Join(new_lines, Newline)

\* lines 373-384: the new merged text
RewriteContent(content, conflict, resolution) ==
    LET lines == Split(content, Newline)
        new_content == NewContent(conflict, resolution)
        new_lines == IF conflict.start_line < Len(lines)
                     THEN Slice(lines, 0, conflict.start_line) \o <<new_content>>
                          \o Slice(lines, conflict.end_line + 1, Len(lines))
                     ELSE lines
    IN  Join(new_lines, Newline)

\* ResolveCurrent without the scan of line 387: the old list stays, with
\* the resolved marker in it
ResolveCurrentNoScan(content, tracked, index, resolution) ==
    LET marked == [tracked EXCEPT ![index + 1].resolution = resolution]
        text == RewriteContent(content, marked[index + 1], resolution)
    IN  [merged_content |-> text,
         conflicts |-> marked,
         current_index |-> index]

\* _resolve_conflict past its guard: the session fields it leaves.  The
\* resolution is set on the marker of the old list (line 371), then the scan
\* of line 387 builds a new list; _goto_conflict (388) only moves the cursor.
ResolveCurrent(content, tracked, index, resolution) ==
    LET marked == [tracked EXCEPT ![index + 1].resolution = resolution]
    IN  Bind(RewriteContent(content, marked[index + 1], resolution), LAMBDA text :
            Bind(_detect_conflicts(text), LAMBDA scan :
                [merged_content |-> text,
                 conflicts |-> scan.conflicts,
                 current_index |-> scan.current_index]))

is_fully_resolved == \A i \in 1..Len(conflicts) : has_resolution(conflicts[i])

count_conflicts == Len(conflicts)

count_unresolved == Cardinality({i \in 1..Len(conflicts) : ~has_resolution(conflicts[i])})

\* the lines a merge text is made of: the three markers and two content lines
MergeLineSet ==
    { CONFLICT_START, MiddleMarker, EndMarker, <<"x">>, <<"y">> }

\* the texts of the left file a session is loaded with
MergeTexts == {Join(ls, Newline) : ls \in SeqsUpTo(MergeLineSet, MaxMergeLines)}

\* a text with three conflicts
ThreeConflicts ==
    Join(<<CONFLICT_START, <<"x">>, MiddleMarker, <<"y">>, EndMarker,
           CONFLICT_START, <<"y">>, MiddleMarker, <<"x">>, EndMarker,
           CONFLICT_START, <<"x">>, EndMarker>>, Newline)

\* the texts a session in use is loaded with again
ReloadTexts ==
    { Join(<<CONFLICT_START, <<"x">>, MiddleMarker, <<"y">>, EndMarker>>, Newline),
      <<"x">>,
      ThreeConflicts }

Resolutions == {"left", "right", "both"}

\* the state after ThreeWayMergeView.__init__ (lines 111-120)
MergeInit ==
    /\ merged_content = <<>>
    /\ conflicts = <<>>
    /\ current_index = -1
    /\ loaded_content = <<>>
    /\ last_op = [op |-> "init"]
    /\ resolves = 0
    /\ left_lines = <<>>
    /\ right_lines = <<>>
    /\ ignore_options = NoOptions
    /\ diff_result = EmptyResult
    /\ unified = <<>>
    /\ context_n = DefaultContext
    /\ diff_pc = "idle"
    /\ SyncIdle
    /\ AlignIdle
    /\ DirIdle
    /\ FileOpsIdle
    /\ HistoryIdle
    /\ InlineIdle

\* load_files: the merged text starts as the left file's text
LoadFiles(text) ==
    LET scan == _detect_conflicts(text)
    IN  /\ merged_content' = text
        /\ conflicts' = scan.conflicts
        /\ current_index' = scan.current_index
        /\ loaded_content' = text
        /\ last_op' = [op |-> "load"]
        /\ resolves' = 0
        /\ UNCHANGED not_merge_vars

\* _use_left / _use_right / _use_both -> _resolve_conflict
ResolveConflict(resolution) ==
    /\ UNCHANGED not_merge_vars
    /\ IF current_index < 0 \/ current_index >= Len(conflicts)
       THEN /\ last_op' = [op |-> "resolve", done |-> FALSE, resolution |-> resolution]
            /\ UNCHANGED <<merged_content, conflicts, current_index, loaded_content, resolves>>
       ELSE LET r == ResolveCurrent(merged_content, conflicts, current_index, resolution)
            IN  /\ merged_content' = r.merged_content
                /\ conflicts' = r.conflicts
                /\ current_index' = r.current_index
                /\ last_op' = [op |-> "resolve", done |-> TRUE, resolution |-> resolution,
                               before |-> merged_content,
                               conflict |-> conflicts[current_index + 1]]
                /\ resolves' = resolves + 1
                /\ UNCHANGED loaded_content

\* _prev_conflict
PrevConflict ==
    /\ IF current_index > 0
       THEN current_index' = current_index - 1
       ELSE UNCHANGED current_index
    /\ last_op' = [op |-> "prev", from |-> current_index]
    /\ UNCHANGED <<merged_content, conflicts, loaded_content, resolves, not_merge_vars>>

\* _next_conflict without its bound
NextConflictUnbounded ==
    /\ current_index' = current_index + 1
    /\ last_op' = [op |-> "next", from |-> current_index]
    /\ UNCHANGED <<merged_content, conflicts, loaded_content, resolves, not_merge_vars>>

\* _next_conflict
NextConflict ==
    /\ IF current_index < Len(conflicts) - 1
       THEN current_index' = current_index + 1
       ELSE UNCHANGED current_index
    /\ last_op' = [op |-> "next", from |-> current_index]
    /\ UNCHANGED <<merged_content, conflicts, loaded_content, resolves, not_merge_vars>>

\* load_files overwrites every field of the session, so the state it leaves
\* depends on the text alone: every text is loaded into the new session, and
\* a session in use is loaded again with the texts of ReloadTexts.
MergeNext ==
    \/ \E text \in (IF last_op.op = "init" THEN MergeTexts ELSE ReloadTexts) :
          LoadFiles(text)
    \/ \E resolution \in Resolutions : ResolveConflict(resolution)
    \/ PrevConflict
    \/ NextConflict

SpecMerge == MergeInit /\ [][MergeNext]_vars

\* A session that is loaded once and whose current conflict is then resolved
\* again and again: the user keeps pressing one of the three buttons.
ResolvingTexts == {Join(ls, Newline) : ls \in SeqsUpTo(MergeLineSet, MaxResolvingLines)}

LoadNew == last_op.op = "init" /\ \E text \in ResolvingTexts : LoadFiles(text)

KeepResolving == \E resolution \in Resolutions : ResolveConflict(resolution)

ResolvingNext ==
    \/ LoadNew
    \/ KeepResolving

SpecResolving ==
    /\ MergeInit
    /\ [][ResolvingNext]_vars
    /\ WF_vars(KeepResolving)

-----------------------------------------------------------------------------
(* The folder synchronizer: src/src/utils/sync_manager.py.  What is on     *)
(* disk at a root path is either not a directory, or a directory that      *)
(* holds under each name of SyncPaths nothing, a file or a sub-directory;  *)
(* the model is one level deep.                                            *)

\* the line differ is not in use
DiffIdle ==
    /\ left_lines = <<>>
    /\ right_lines = <<>>
    /\ ignore_options = NoOptions
    /\ diff_result = EmptyResult
    /\ unified = <<>>
    /\ context_n = DefaultContext
    /\ diff_pc = "idle"

\* no merge session is in use
MergeIdle ==
    /\ merged_content = <<>>
    /\ conflicts = <<>>
    /\ current_index = -1
    /\ loaded_content = <<>>
    /\ last_op = [op |-> "init"]
    /\ resolves = 0

\* the relative paths of the model
PathA == <<"a", ".", "t", "x", "t">>

PathB == <<"b", ".", "t", "x", "t">>

PathC == <<"c", ".", "t", "x", "t">>

PathD == <<"d">>

SyncPaths == {PathA, PathB, PathC, PathD}

\* the paths in the order of sorted()
PathOrder == <<PathA, PathB, PathC, PathD>>

sorted(paths) ==
    LET Member(p) == p \in paths IN SelectSeq(PathOrder, Member)

\* what a directory holds under a name
Absent == [kind |-> "absent", content |-> <<>>, modified |-> 0]

Directory(modified) == [kind |-> "dir", content |-> <<>>, modified |-> modified]

File(content, modified) == [kind |-> "file", content |-> content, modified |-> modified]

\* a root path that is not a directory (missing, or a file)
NotADirectory == [is_dir |-> FALSE, entries |-> [p \in SyncPaths |-> Absent]]

Folder(entries) == [is_dir |-> TRUE, entries |-> entries]

\* what the model puts under each name
EntryChoices ==
    [p \in SyncPaths |->
        CASE p = PathA -> {Absent, File(<<"x">>, 1)}
          [] p = PathB -> {Absent, File(<<"y">>, 2), File(<<"z">>, 1), File(<<"z", "z">>, 3)}
          [] p = PathC -> {Absent, File(<<"w">>, 2)}
          [] OTHER -> {Absent, Directory(1), File(<<"x">>, 2)}]

SyncTrees ==
    {NotADirectory} \cup
    {Folder(e) : e \in {f \in [SyncPaths -> UNION {EntryChoices[p] : p \in SyncPaths}] :
                            \A p \in SyncPaths : f[p] \in EntryChoices[p]}}

\* SyncDirection
LEFT_TO_RIGHT == "left_to_right"

RIGHT_TO_LEFT == "right_to_left"

BIDIRECTIONAL == "bidirectional"

SyncDirection == {LEFT_TO_RIGHT, RIGHT_TO_LEFT, BIDIRECTIONAL}

\* ConflictResolution
SKIP == "skip"

LEFT_WINS == "left_wins"

RIGHT_WINS == "right_wins"

NEWER_WINS == "newer_wins"

LARGER_WINS == "larger_wins"

PROMPT == "prompt"

ConflictResolution == {SKIP, LEFT_WINS, RIGHT_WINS, NEWER_WINS, LARGER_WINS, PROMPT}

\* the ignore_patterns lists of the model: none, and one that ignores *.txt
IgnorePatterns == { <<>>, << <<"*", ".", "t", "x", "t">> >> }

\* fnmatch.fnmatch for patterns made of literal characters and '*'
RECURSIVE fnmatch(_, _)
fnmatch(name, pattern) ==
    IF pattern = <<>> THEN name = <<>>
    ELSE IF Head(pattern) = "*"
    THEN fnmatch(name, Tail(pattern)) \/ (name # <<>> /\ fnmatch(Tail(name), pattern))
    ELSE name # <<>> /\ Head(name) = Head(pattern) /\ fnmatch(Tail(name), Tail(pattern))

\* any(fnmatch.fnmatch(str(rel), pattern) for pattern in ignore_patterns)
Ignored(rel_path, ignore_patterns) ==
    \E i \in 1..Len(ignore_patterns) : fnmatch(rel_path, ignore_patterns[i])

\* a dict without keys
EmptyDict == <<>>

\* _scan_directory.  os.walk yields root as a str, so for the first entry
\* that is not ignored `root / dirname` (line 298) or `root / filename`
\* (line 307) is str / str and raises TypeError before the entry is
\* recorded: the scan returns only when nothing is left to record.
_scan_directory(tree, ignore_patterns) ==
    IF \E p \in SyncPaths :
          tree.entries[p].kind # "absent" /\ ~Ignored(p, ignore_patterns)
    THEN [raised |-> "TypeError", files |-> EmptyDict]
    ELSE [raised |-> "None", files |-> EmptyDict]

\* SyncOperation; a path is a side ("left" / "right") and a relative path
SyncOperation(source_side, destination_side, rel_path, is_directory, size) ==
    [operation_type |-> "copy",
     source_path |-> <<source_side, rel_path>>,
     destination_path |-> <<destination_side, rel_path>>,
     is_directory |-> is_directory, size |-> size]

SyncConflict(rel_path, left_info, right_info, reason) ==
    [path |-> rel_path,
     left_path |-> <<"left", rel_path>>, right_path |-> <<"right", rel_path>>,
     left_modified |-> left_info.modified, right_modified |-> right_info.modified,
     left_size |-> left_info.size, right_size |-> right_info.size,
     reason |-> reason]

\* lines 130-138: a path the left scan has and the right scan lacks
CopyToRight(operations, rel_path, left_files, right_files, direction) ==
    IF /\ direction \in {LEFT_TO_RIGHT, BIDIRECTIONAL}
       /\ rel_path \in DOMAIN left_files
       /\ rel_path \notin DOMAIN right_files
    THEN Append(operations,
                SyncOperation("left", "right", rel_path,
                              left_files[rel_path].is_dir, left_files[rel_path].size))
    ELSE operations

\* lines 140-148: a path the right scan has and the left scan lacks
CopyToLeft(operations, rel_path, left_files, right_files, direction) ==
    IF /\ direction \in {RIGHT_TO_LEFT, BIDIRECTIONAL}
       /\ rel_path \in DOMAIN right_files
       /\ rel_path \notin DOMAIN left_files
    THEN Append(operations,
                SyncOperation("right", "left", rel_path,
                              right_files[rel_path].is_dir, right_files[rel_path].size))
    ELSE operations

\* lines 150-190: a path both scans have
OnBothSides(plan, rel_path, left_info, right_info, direction) ==
    IF left_info.is_dir # right_info.is_dir
    THEN [plan EXCEPT !.conflicts =
             Append(@, SyncConflict(rel_path, left_info, right_info,
                                    "Type mismatch (file vs directory)"))]
    ELSE IF ~left_info.is_dir /\ left_info.hash # right_info.hash
    THEN IF direction = LEFT_TO_RIGHT
         THEN [plan EXCEPT !.operations =
                  Append(@, SyncOperation("left", "right", rel_path, FALSE, left_info.size))]
         ELSE IF direction = RIGHT_TO_LEFT
         THEN [plan EXCEPT !.operations =
                  Append(@, SyncOperation("right", "left", rel_path, FALSE, right_info.size))]
         ELSE [plan EXCEPT !.conflicts =
                  Append(@, SyncConflict(rel_path, left_info, right_info, "Content differs"))]
    ELSE plan

\* lines 126-190: the loop body for one relative path
PreviewPath(plan, rel_path, left_files, right_files, direction) ==
    LET copied == [plan EXCEPT !.operations =
                      CopyToLeft(CopyToRight(@, rel_path, left_files, right_files, direction),
                                 rel_path, left_files, right_files, direction)]
    IN  IF rel_path \in DOMAIN left_files /\ rel_path \in DOMAIN right_files
        THEN OnBothSides(copied, rel_path, left_files[rel_path], right_files[rel_path],
                         direction)
        ELSE copied

RECURSIVE PreviewPaths(_, _, _, _, _)
PreviewPaths(plan, paths, left_files, right_files, direction) ==
    IF paths = <<>> THEN plan
    ELSE PreviewPaths(PreviewPath(plan, Head(paths), left_files, right_files, direction),
                      Tail(paths), left_files, right_files, direction)

\* what preview_sync raises instead of returning
PreviewRaised(exception) ==
    [raised |-> exception, operations |-> <<>>, conflicts |-> <<>>]

\* preview_sync
preview_sync(left, right, direction, ignore_patterns) ==
    IF ~left.is_dir THEN PreviewRaised("ValueError")
    ELSE IF ~right.is_dir THEN PreviewRaised("ValueError")
    ELSE LET left_scan == _scan_directory(left, ignore_patterns)
             right_scan == _scan_directory(right, ignore_patterns)
         IN  IF left_scan.raised # "None" THEN PreviewRaised(left_scan.raised)
             ELSE IF right_scan.raised # "None" THEN PreviewRaised(right_scan.raised)
             ELSE PreviewPaths(PreviewRaised("None"),
                               sorted(DOMAIN left_scan.files \cup DOMAIN right_scan.files),
                               left_scan.files, right_scan.files, direction)

\* the entry at a path (a side and a relative path) of the two trees
EntryAt(disk, path) == disk[path[1]].entries[path[2]]

\* _copy_item.  copytree needs a directory at source, copy2 a file; copy2
\* onto a directory puts the file inside it, which leaves the entry under
\* that name a directory; copy2 keeps the modified time.  io_error says that
\* the file system refuses this copy.
_copy_item(disk, source, destination, is_directory, io_error) ==
    LET found == EntryAt(disk, source)
        kept == EntryAt(disk, destination).kind = "dir" /\ ~is_directory
        written == [disk EXCEPT ![destination[1]].entries[destination[2]] =
                       IF kept THEN @ ELSE found]
    IN  IF io_error \/ found.kind # (IF is_directory THEN "dir" ELSE "file")
        THEN [raised |-> TRUE, disk |-> disk]
        ELSE [raised |-> FALSE, disk |-> written]

\* SyncResult(success=True)
NewSyncResult ==
    [success |-> TRUE, operations_performed |-> <<>>, conflicts |-> <<>>,
     errors |-> <<>>, files_copied |-> 0, directories_created |-> 0,
     bytes_transferred |-> 0]

\* lines 229-241: an operation whose copy went through
Performed(result, operation) ==
    [result EXCEPT
        !.operations_performed = Append(@, operation),
        !.directories_created = IF operation.is_directory THEN @ + 1 ELSE @,
        !.files_copied = IF operation.is_directory THEN @ ELSE @ + 1,
        !.bytes_transferred = IF operation.is_directory THEN @ ELSE @ + operation.size]

\* lines 224-246: the loop over the operations; failing holds the numbers
\* of the operations whose copy the file system refuses
RECURSIVE RunOperations(_, _, _, _)
RunOperations(run, operations, i, failing) ==
    IF i > Len(operations) THEN run
    ELSE LET operation == operations[i]
             copy == _copy_item(run.disk, operation.source_path,
                                operation.destination_path, operation.is_directory,
                                i \in failing)
         IN  RunOperations(
                 IF copy.raised
                 THEN [run EXCEPT !.result.errors =
                          Append(@, [message |-> "Failed to copy",
                                     path |-> operation.source_path])]
                 ELSE [disk |-> copy.disk, aborted |-> FALSE,
                       result |-> Performed(run.result, operation)],
                 operations, i + 1, failing)

\* _resolve_conflict; a callback is modelled by the resolution it answers
_resolve_conflict(conflict, default_resolution, callback) ==
    IF default_resolution # PROMPT THEN default_resolution
    ELSE IF callback # "None" THEN callback
    ELSE IF default_resolution = NEWER_WINS
    THEN (IF conflict.left_modified > conflict.right_modified
          THEN LEFT_WINS ELSE RIGHT_WINS)
    ELSE IF default_resolution = LARGER_WINS
    THEN (IF conflict.left_size > conflict.right_size THEN LEFT_WINS ELSE RIGHT_WINS)
    ELSE SKIP

\* lines 248-257: the loop over the conflicts; a copy that raises here is
\* caught by the outer handler only, which ends the loop
RECURSIVE RunConflicts(_, _, _, _, _, _)
RunConflicts(run, found, j, failing, conflict_resolution, callback) ==
    IF j > Len(found) THEN run
    ELSE LET conflict == found[j]
             resolution == _resolve_conflict(conflict, conflict_resolution, callback)
             copy == IF resolution = LEFT_WINS
                     THEN _copy_item(run.disk, conflict.left_path, conflict.right_path,
                                     FALSE, j \in failing)
                     ELSE _copy_item(run.disk, conflict.right_path, conflict.left_path,
                                     FALSE, j \in failing)
         IN  IF resolution \notin {LEFT_WINS, RIGHT_WINS}
             THEN RunConflicts(run, found, j + 1, failing, conflict_resolution, callback)
             ELSE IF copy.raised
             THEN [run EXCEPT !.aborted = TRUE]
             ELSE RunConflicts([run EXCEPT !.disk = copy.disk,
                                           !.result.files_copied = @ + 1],
                               found, j + 1, failing, conflict_resolution, callback)

\* lines 259-262: the outer handler
OuterHandler(result, exception) ==
    [result EXCEPT !.success = FALSE,
                   !.errors = Append(@, [message |-> exception, path |-> <<>>])]

\* sync_folders: the trees it leaves and the SyncResult it returns
sync_folders(disk, direction, ignore_patterns, conflict_resolution, callback, failing_operations, failing_conflicts) ==
    LET plan == preview_sync(disk.left, disk.right, direction, ignore_patterns)
        start == [disk |-> disk, aborted |-> FALSE,
                  result |-> [NewSyncResult EXCEPT !.conflicts = plan.conflicts]]
        copied == RunOperations(start, plan.operations, 1, failing_operations)
        resolved == RunConflicts(copied, plan.conflicts, 1, failing_conflicts,
                                 conflict_resolution, callback)
    IN  IF plan.raised # "None"
        THEN [disk |-> disk, result |-> OuterHandler(NewSyncResult, plan.raised)]
        ELSE IF resolved.aborted
        THEN [disk |-> resolved.disk, result |-> OuterHandler(resolved.result, "OSError")]
        ELSE [disk |-> resolved.disk, result |-> resolved.result]

\* the callbacks given to set_conflict_callback, each named by its answer
ConflictCallbacks == {LEFT_WINS}

\* no call was made yet
NoSyncCall ==
    [op |-> "none", direction |-> BIDIRECTIONAL, ignore_patterns |-> <<>>,
     conflict_resolution |-> PROMPT]

NoSyncReturn ==
    [raised |-> "None", operations |-> <<>>, conflicts |-> <<>>,
     result |-> NewSyncResult, before |-> <<>>]

\* SyncManager.__init__, and the two directories the caller has
SyncInit ==
    /\ sync_left \in SyncTrees
    /\ sync_right \in SyncTrees
    /\ sync_callback = "None"
    /\ sync_call = NoSyncCall
    /\ sync_return = NoSyncReturn
    /\ sync_pc = "input"
    /\ DiffIdle
    /\ MergeIdle
    /\ AlignIdle
    /\ DirIdle
    /\ FileOpsIdle
    /\ HistoryIdle
    /\ InlineIdle

\* set_conflict_callback
SetConflictCallback(callback) ==
    /\ sync_pc = "input"
    /\ sync_callback = "None"
    /\ sync_callback' = callback
    /\ UNCHANGED <<sync_left, sync_right, sync_call, sync_return, sync_pc, not_sync_vars>>

\* preview_sync
PreviewSync(direction, ignore_patterns) ==
    LET plan == preview_sync(sync_left, sync_right, direction, ignore_patterns)
    IN  /\ sync_pc = "input"
        /\ sync_call' = [op |-> "preview_sync", direction |-> direction,
                         ignore_patterns |-> ignore_patterns,
                         conflict_resolution |-> PROMPT]
        /\ sync_return' = [NoSyncReturn EXCEPT !.raised = plan.raised,
                                               !.operations = plan.operations,
                                               !.conflicts = plan.conflicts,
                                               !.before = [left |-> sync_left,
                                                           right |-> sync_right]]
        /\ sync_pc' = "previewed"
        /\ UNCHANGED <<sync_left, sync_right, sync_callback, not_sync_vars>>

\* sync_folders; the copies the file system refuses are chosen by the
\* environment
SyncFolders(direction, ignore_patterns, conflict_resolution) ==
    LET disk == [left |-> sync_left, right |-> sync_right]
        plan == preview_sync(sync_left, sync_right, direction, ignore_patterns)
    IN  /\ sync_pc = "input"
        /\ \E failing_operations \in SUBSET (1..Len(plan.operations)),
              failing_conflicts \in SUBSET (1..Len(plan.conflicts)) :
              LET done == sync_folders(disk, direction, ignore_patterns,
                                       conflict_resolution, sync_callback,
                                       failing_operations, failing_conflicts)
              IN  /\ sync_left' = done.disk.left
                  /\ sync_right' = done.disk.right
                  /\ sync_return' = [NoSyncReturn EXCEPT !.result = done.result,
                                                         !.before = disk]
        /\ sync_call' = [op |-> "sync_folders", direction |-> direction,
                         ignore_patterns |-> ignore_patterns,
                         conflict_resolution |-> conflict_resolution]
        /\ sync_pc' = "synced"
        /\ UNCHANGED <<sync_callback, not_sync_vars>>

SyncNext ==
    \/ \E callback \in ConflictCallbacks : SetConflictCallback(callback)
    \/ \E direction \in SyncDirection, ignore_patterns \in IgnorePatterns :
          PreviewSync(direction, ignore_patterns)
    \/ \E direction \in SyncDirection, ignore_patterns \in IgnorePatterns,
          conflict_resolution \in ConflictResolution :
          SyncFolders(direction, ignore_patterns, conflict_resolution)

SpecSync == SyncInit /\ [][SyncNext]_vars

-----------------------------------------------------------------------------
(* LineAligner, diff_engine.py 293-497.  A similarity score is the float   *)
(* the code computes from two fractions; the model keeps it as the exact   *)
(* fraction num / den, den > 0, and compares fractions by cross            *)
(* multiplication.                                                         *)

Fraction(num, den) == [num |-> num, den |-> den]

\* x < y, x > y for two fractions
FractionLess(x, y) == x.num * y.den < y.num * x.den

FractionGreater(x, y) == x.num * y.den > y.num * x.den

\* the characters the pattern \w matches in ASCII text
WordChars ==
    UpperSet \cup {LowerChars[k] : k \in 1..Len(LowerChars)}
             \cup {DigitChars[k] : k \in 1..Len(DigitChars)} \cup {"_"}

\* set(re.findall(r'\w+', text)): the maximal runs of word characters, word
\* being the run that is open at the head of text
RECURSIVE FindWords(_, _)
FindWords(text, word) ==
    LET closed == IF word = <<>> THEN {} ELSE {word}
    IN  IF text = <<>> THEN closed
        ELSE IF Head(text) \in WordChars
             THEN FindWords(Tail(text), Append(word, Head(text)))
             ELSE closed \cup FindWords(Tail(text), <<>>)

\* LineAligner._word_similarity, lines 483-497
_word_similarity(text1, text2) ==
    LET words1 == FindWords(Lower(text1), <<>>)
        words2 == FindWords(Lower(text2), <<>>)
    IN  IF words1 = {} /\ words2 = {} THEN Fraction(1, 1)
        ELSE IF words1 = {} \/ words2 = {} THEN Fraction(0, 1)
        ELSE Fraction(Cardinality(words1 \cap words2), Cardinality(words1 \cup words2))

\* the sum of the sizes of a list of matching blocks
RECURSIVE MatchedSize(_)
MatchedSize(blocks) ==
    IF blocks = <<>> THEN 0 ELSE Head(blocks)[3] + MatchedSize(Tail(blocks))

\* difflib.SequenceMatcher(None, a, b).ratio(): 2.0 * matches / length
ratio(a, b) ==
    IF Len(a) + Len(b) = 0 THEN Fraction(1, 1)
    ELSE Fraction(2 * MatchedSize(get_matching_blocks(a, b)), Len(a) + Len(b))

\* lines 465-476: the score of one pair of lines
combined_score(left_line, right_line) ==
    LET left_content == Strip(left_line.content)
        right_content == Strip(right_line.content)
        string_ratio == ratio(left_content, right_content)
        word_ratio == _word_similarity(left_content, right_content)
    IN  IF left_content = <<>> \/ right_content = <<>> THEN Fraction(0, 1)
        ELSE Fraction(6 * string_ratio.num * word_ratio.den
                        + 4 * word_ratio.num * string_ratio.den,
                      10 * string_ratio.den * word_ratio.den)

\* LineAligner._compute_similarity_matrix, lines 451-480
_compute_similarity_matrix(left_block, right_block) ==
    [li \in 1..Len(left_block) |->
        [ri \in 1..Len(right_block) |-> combined_score(left_block[li], right_block[ri])]]

\* lines 387-398: the pair the scan over the unmatched pairs ends with, li
\* outer and ri inner, a later pair replacing the best one only when its
\* score is greater; <<0, 0>> stands for None
BestPair(matrix, nl, nr, matched_left, matched_right) ==
    LET free == {p \in (1..nl) \X (1..nr) :
                    /\ p[1] \notin matched_left
                    /\ p[2] \notin matched_right
                    /\ FractionGreater(matrix[p[1]][p[2]], Fraction(0, 1))}
        Before(p, q) == p[1] < q[1] \/ (p[1] = q[1] /\ p[2] < q[2])
    IN  IF free = {} THEN <<0, 0>>
        ELSE CHOOSE p \in free :
                \A q \in free \ {p} :
                    \/ FractionGreater(matrix[p[1]][p[2]], matrix[q[1]][q[2]])
                    \/ /\ ~FractionGreater(matrix[q[1]][q[2]], matrix[p[1]][p[2]])
                       /\ Before(p, q)

\* a matched pair as Equal whatever its score
MatchedPairAlwaysEqual(left_line, right_line, best_score) ==
    <<DiffLine("equal", left_line.content, left_line.left_line_num,
               right_line.right_line_num)>>

\* lines 408-428: the DiffLines a matched pair becomes
MatchedPair(left_line, right_line, best_score) ==
    IF FractionGreater(best_score, Fraction(8, 10))
    THEN <<DiffLine("equal", left_line.content, left_line.left_line_num,
                    right_line.right_line_num)>>
    ELSE <<DiffLine("replace", left_line.content, left_line.left_line_num, NoLine),
           DiffLine("replace", right_line.content, NoLine, right_line.right_line_num)>>

\* the element of a one-element set: TheOne({F(x) : x \in {e}}) is F(e) with
\* e evaluated once
TheOne(S) == CHOOSE x \in S : TRUE

\* lines 386-428: the greedy loop, from the state st of one of its rounds
RECURSIVE GreedyMatch(_, _, _, _)
GreedyMatch(st, matrix, left_block, right_block) ==
    TheOne({
        LET best_score == IF best_pair = <<0, 0>> THEN Fraction(0, 1)
                          ELSE matrix[best_pair[1]][best_pair[2]]
        IN  IF FractionLess(best_score, Fraction(3, 10)) THEN s
            ELSE GreedyMatch(
                    [lines |-> s.lines \o MatchedPair(left_block[best_pair[1]],
                                                      right_block[best_pair[2]], best_score),
                     matched_left |-> s.matched_left \cup {best_pair[1]},
                     matched_right |-> s.matched_right \cup {best_pair[2]}],
                    matrix, left_block, right_block)
        : s \in {st},
          best_pair \in {BestPair(matrix, Len(left_block), Len(right_block),
                                  st.matched_left, st.matched_right)} })

\* diff_lines.index(start_line), 1-based; start_line is in diff_lines
IndexOf(diff_lines, start_line) ==
    CHOOSE i \in 1..Len(diff_lines) :
        /\ diff_lines[i] = start_line
        /\ \A k \in 1..(i - 1) : diff_lines[k] # start_line

\* lines 365-371: the Replace lines from position i on, up to the first line
\* of another type
RECURSIVE ReplaceRunFrom(_, _)
ReplaceRunFrom(diff_lines, i) ==
    IF i <= Len(diff_lines) /\ diff_lines[i].type = "replace"
    THEN <<diff_lines[i]>> \o ReplaceRunFrom(diff_lines, i + 1)
    ELSE <<>>

\* lines 430-446: the unmatched left lines as Delete, then the unmatched right
\* lines as Insert, after the lines of the matched pairs
WithUnmatched(m, left_block, right_block) ==
    LET unmatched_left == SelectSeq([li \in 1..Len(left_block) |-> li],
                                    LAMBDA li : li \notin m.matched_left)
        unmatched_right == SelectSeq([ri \in 1..Len(right_block) |-> ri],
                                     LAMBDA ri : ri \notin m.matched_right)
        deletes == [k \in 1..Len(unmatched_left) |->
                        DiffLine("delete", left_block[unmatched_left[k]].content,
                                 left_block[unmatched_left[k]].left_line_num, NoLine)]
        inserts == [k \in 1..Len(unmatched_right) |->
                        DiffLine("insert", right_block[unmatched_right[k]].content,
                                 NoLine, right_block[unmatched_right[k]].right_line_num)]
    IN  m.lines \o deletes \o inserts

\* lines 373-448: _align_replace_block once the two blocks are collected
AlignBlocks(left_block, right_block, start_line) ==
    IF left_block = <<>> \/ right_block = <<>> THEN <<start_line>>
    ELSE TheOne({
            TheOne({ WithUnmatched(m, left_block, right_block) :
                     m \in {GreedyMatch([lines |-> <<>>, matched_left |-> {},
                                         matched_right |-> {}],
                                        matrix, left_block, right_block)} })
            : matrix \in {_compute_similarity_matrix(left_block, right_block)} })

\* LineAligner._align_replace_block, lines 347-448: result["lines"].  The
\* counters left_idx and right_idx it also returns are written by align_lines
\* and never read for the DiffResult, so they are left out.
_align_replace_block(diff_lines, start_line) ==
    TheOne({ AlignBlocks(SelectSeq(run, LAMBDA d : d.left_line_num # NoLine),
                         SelectSeq(run, LAMBDA d : d.right_line_num # NoLine),
                         start_line)
             : run \in {ReplaceRunFrom(diff_lines, IndexOf(diff_lines, start_line))} })

\* lines 319-337: the loop of align_lines from the k-th DiffLine of the input
RECURSIVE AlignFrom(_, _)
AlignFrom(diff_lines, k) ==
    IF k > Len(diff_lines) THEN <<>>
    ELSE (IF diff_lines[k].type = "replace"
          THEN _align_replace_block(diff_lines, diff_lines[k])
          ELSE <<diff_lines[k]>>)
         \o AlignFrom(diff_lines, k + 1)

\* LineAligner.align_lines, lines 297-344
align_lines(left, right, result) ==
    [lines |-> AlignFrom(result.lines, 1),
     left_line_count |-> result.left_line_count,
     right_line_count |-> result.right_line_count,
     change_count |-> result.change_count]

\* the lines given to the aligner: one plain line, the same line indented
\* (score above 0.8), a line that shares a word with it (score between 0.3
\* and 0.8) and an unrelated line (score 0)
AlignLineSet == { <<"a">>, <<" ", "a">>, <<"a", " ", "b">>, <<"b">> }

\* DiffView holds two texts and the DiffResult of their comparison
AlignInit ==
    /\ align_left \in SeqsUpTo(AlignLineSet, MaxLines)
    /\ align_right \in SeqsUpTo(AlignLineSet, MaxLines)
    /\ align_input = from_files(align_left, align_right, NoOptions)
    /\ align_output = EmptyResult
    /\ align_pc = "input"
    /\ DiffIdle
    /\ MergeIdle
    /\ SyncIdle
    /\ DirIdle
    /\ FileOpsIdle
    /\ HistoryIdle
    /\ InlineIdle

\* LineAligner.align_lines(left_lines, right_lines, self._diff_result)
AlignLines ==
    /\ align_pc = "input"
    /\ align_output' = align_lines(align_left, align_right, align_input)
    /\ align_pc' = "aligned"
    /\ UNCHANGED <<align_left, align_right, align_input, not_align_vars>>

AlignNext ==
    \/ AlignLines

SpecAlign == AlignInit /\ [][AlignNext]_vars

-----------------------------------------------------------------------------
(* DirectoryDiffEngine.compare_directories, diff_engine.py 655-709, on two  *)
(* one-level directory listings.  A file holds bytes; read_file             *)
(* (utils/file_ops.py 16-19) returns the text Python decodes from them.     *)

\* two bytes that are not valid UTF-8, and the character they decode to
\* under errors="replace"
ByteFF == "0xFF"

ByteFE == "0xFE"

ReplacementCharacter == "U+FFFD"

\* bytes.decode("utf-8", errors="replace") on the model's bytes
Decode(bytes) ==
    [i \in 1..Len(bytes) |->
        IF bytes[i] \in {ByteFF, ByteFE} THEN ReplacementCharacter ELSE bytes[i]]

\* text mode with newline=None: '\r\n' and '\r' are read as '\n'
RECURSIVE UniversalNewlines(_)
UniversalNewlines(text) ==
    IF text = <<>> THEN <<>>
    ELSE IF Head(text) = "\r"
         THEN <<"\n">> \o UniversalNewlines(
                            IF Len(text) >= 2 /\ text[2] = "\n"
                            THEN Tail(Tail(text)) ELSE Tail(text))
         ELSE <<Head(text)>> \o UniversalNewlines(Tail(text))

\* a file open() fails on, and a name that is listed but does not exist (a
\* dangling symbolic link)
Unreadable == [kind |-> "unreadable", content |-> <<>>, modified |-> 0]

Dangling == [kind |-> "dangling", content |-> <<>>, modified |-> 0]

\* read_file(file_path): the text, or the exception open() raises
read_file(entry) ==
    IF entry.kind = "file"
    THEN [raised |-> FALSE, text |-> UniversalNewlines(Decode(entry.content))]
    ELSE [raised |-> TRUE, text |-> <<>>]

\* os.listdir(path)
listdir(tree) == {p \in SyncPaths : tree.entries[p].kind # "absent"}

\* os.path.exists(item_path), os.path.isdir(item_path)
exists(entry) == entry.kind \notin {"absent", "dangling"}

isdir(entry) == entry.kind = "dir"

\* the left_path and right_path arguments, and None
LeftPath == <<"L">>

RightPath == <<"R">>

NoPath == <<>>

\* os.path.join(path, item)
PathJoin(path, item) == path \o <<"/">> \o item

DirectoryDiffEntry(name, left_path, right_path, is_directory, is_modified, is_only_left, is_only_right) ==
    [name |-> name, left_path |-> left_path, right_path |-> right_path,
     is_directory |-> is_directory, is_modified |-> is_modified,
     is_only_left |-> is_only_left, is_only_right |-> is_only_right]

DirectoryDiffResult(entries, left_path, right_path) ==
    [entries |-> entries, left_path |-> left_path, right_path |-> right_path]

\* an entry marked only-left whenever either side has it
ExistsEitherSide(left_exists, right_exists) == left_exists \/ right_exists

\* line 675: is_only_left; is_only_right is the same with the sides exchanged
ExistsOnlyFirst(first_exists, second_exists) == first_exists /\ ~second_exists

\* lines 681-690: is_modified of an item that exists on both sides
ContentsDiffer(left_entry, right_entry) ==
    LET left_content == read_file(left_entry)
        right_content == read_file(right_entry)
    IN  IF left_content.raised \/ right_content.raised THEN TRUE
        ELSE left_content.text # right_content.text

\* lines 668-701: the body of the loop, for one item
CompareItem(item, left, right) ==
    LET left_entry == left.entries[item]
        right_entry == right.entries[item]
        left_exists == exists(left_entry)
        right_exists == exists(right_entry)
        is_directory == left_exists /\ right_exists /\ isdir(left_entry)
        is_modified == /\ left_exists /\ right_exists /\ ~is_directory
                       /\ ContentsDiffer(left_entry, right_entry)
    IN  DirectoryDiffEntry(item,
            IF left_exists THEN PathJoin(LeftPath, item) ELSE NoPath,
            IF right_exists THEN PathJoin(RightPath, item) ELSE NoPath,
            is_directory, is_modified,
            ExistsOnlyFirst(left_exists, right_exists),
            ExistsOnlyFirst(right_exists, left_exists))

\* DirectoryDiffEngine.compare_directories, lines 655-709
compare_directories(left, right) ==
    IF ~left.is_dir \/ ~right.is_dir
    THEN DirectoryDiffResult(<<>>, LeftPath, RightPath)
    ELSE LET all_items == sorted(listdir(left) \cup listdir(right))
         IN  DirectoryDiffResult(
                [k \in 1..Len(all_items) |-> CompareItem(all_items[k], left, right)],
                LeftPath, RightPath)

\* what the model puts under each name of a compared directory
DirEntryChoices ==
    [p \in SyncPaths |->
        CASE p = PathA -> {Absent, File(<<"x", "\r", "\n">>, 1), File(<<"x", "\n">>, 1),
                           File(<<"y">>, 1), Unreadable}
          [] p = PathB -> {Absent, File(<<ByteFF>>, 1), File(<<ByteFE>>, 1)}
          [] p = PathC -> {Absent, Dangling}
          [] OTHER -> {Absent, Directory(1), File(<<"x">>, 1)}]

DirTrees ==
    {NotADirectory} \cup
    {Folder(e) : e \in {f \in [SyncPaths -> UNION {DirEntryChoices[p] : p \in SyncPaths}] :
                            \A p \in SyncPaths : f[p] \in DirEntryChoices[p]}}

\* the two paths the caller has, before the call
DirInit ==
    /\ dir_left \in DirTrees
    /\ dir_right \in DirTrees
    /\ dir_return = DirectoryDiffResult(<<>>, LeftPath, RightPath)
    /\ dir_pc = "input"
    /\ DiffIdle
    /\ MergeIdle
    /\ SyncIdle
    /\ AlignIdle
    /\ FileOpsIdle
    /\ HistoryIdle
    /\ InlineIdle

\* DirectoryDiffEngine.compare_directories(left_path, right_path)
CompareDirectories ==
    /\ dir_pc = "input"
    /\ dir_return' = compare_directories(dir_left, dir_right)
    /\ dir_pc' = "compared"
    /\ UNCHANGED <<dir_left, dir_right, not_dir_vars>>

DirNext ==
    \/ CompareDirectories

SpecDir == DirInit /\ [][DirNext]_vars

-----------------------------------------------------------------------------
(* merge_files, utils/file_ops.py 193-282, on the DiffResult that           *)
(* DiffEngine.compare_text (diff_engine.py 159-165, 191-193) gives for the  *)
(* two texts.                                                               *)

\* text.splitlines(keepends=False) for a text whose only line break is '\n'
splitlines(text) ==
    LET parts == Split(text, Newline)
    IN  IF parts[Len(parts)] = <<>> THEN SubSeq(parts, 1, Len(parts) - 1) ELSE parts

\* DiffResult.from_text
from_text(left_text, right_text, opts) ==
    from_files(splitlines(left_text), splitlines(right_text), opts)

\* DiffEngine.compare_text, self.ignore_options being opts
compare_text(opts, text1, text2) == from_text(text1, text2, opts)

\* s.endswith('\n')
EndsWithNewline(s) == Len(s) >= 1 /\ s[Len(s)] = "\n"

\* lines 239-258: the body of the loop over diff_result.lines
MergeDiffLine(st, diff_line, left, right) ==
    CASE diff_line.type = "equal" ->
            IF st.left_idx < Len(left)
            THEN [merged_lines |-> Append(st.merged_lines, left[st.left_idx + 1]),
                  left_idx |-> st.left_idx + 1, right_idx |-> st.right_idx + 1]
            ELSE st
      [] diff_line.type = "insert" ->
            IF st.right_idx < Len(right)
            THEN [st EXCEPT !.merged_lines = Append(@, right[st.right_idx + 1]),
                            !.right_idx = @ + 1]
            ELSE st
      [] diff_line.type = "delete" -> [st EXCEPT !.left_idx = @ + 1]
      [] diff_line.type = "replace" ->
            IF st.right_idx < Len(right)
            THEN [st EXCEPT !.merged_lines = Append(@, right[st.right_idx + 1]),
                            !.right_idx = @ + 1, !.left_idx = @ + 1]
            ELSE [st EXCEPT !.left_idx = @ + 1]

\* lines 238-258: the loop from the k-th DiffLine
RECURSIVE MergeDiffLines(_, _, _, _, _)
MergeDiffLines(st, diff_lines, k, left, right) ==
    IF k > Len(diff_lines) THEN st
    ELSE TheOne({MergeDiffLines(MergeDiffLine(s, diff_lines[k], left, right),
                                diff_lines, k + 1, left, right) : s \in {st}})

\* lines 224-264: merged_content
MergedContent(left_content, right_content, result) ==
    LET left == IF left_content # <<>> THEN Split(left_content, Newline) ELSE <<>>
        right == IF right_content # <<>> THEN Split(right_content, Newline) ELSE <<>>
        merged == IF result.lines = <<>>
                  THEN (IF left_content = right_content THEN left_content ELSE right_content)
                  ELSE Join(MergeDiffLines([merged_lines |-> <<>>, left_idx |-> 0,
                                            right_idx |-> 0],
                                           result.lines, 1, left, right).merged_lines,
                            Newline)
    IN  IF ~EndsWithNewline(merged)
           /\ (EndsWithNewline(left_content) \/ EndsWithNewline(right_content))
        THEN merged \o Newline
        ELSE merged

\* no file at a path; None for a path
NoFile == <<"ENOENT">>

\* MergeResult, lines 172-190
MergeResult(success, output_path, backup_path, error) ==
    [success |-> success, output_path |-> output_path, backup_path |-> backup_path,
     error |-> error]

\* the output_path argument and the path create_backup returns
OutputPath == <<"/", "o">>

BackupPath == <<"/", "o", ".", "b", "a", "k">>

\* the lines of the texts given to merge_files
FileLineSet == { <<"a">>, <<"b">>, <<"c">> }

\* the texts: up to MaxLines lines joined by '\n', with or without a final '\n'
FileTexts ==
    {Join(ls, Newline) \o end : ls \in SeqsUpTo(FileLineSet, MaxLines), end \in {<<>>, Newline}}

\* the two texts of the caller and what is at output_path before the call
FileOpsInit ==
    /\ fo_left \in FileTexts
    /\ fo_right \in FileTexts
    /\ fo_output \in {NoFile, <<"o">>}
    /\ fo_backup = NoFile
    /\ fo_result = MergeResult(FALSE, NoPath, NoPath, <<>>)
    /\ fo_pc = "input"
    /\ DiffIdle
    /\ MergeIdle
    /\ SyncIdle
    /\ AlignIdle
    /\ DirIdle
    /\ HistoryIdle
    /\ InlineIdle

\* the message of the exception write_file raises
WriteError == <<"E", "R", "R">>

\* merge_files(left_content, right_content,
\*             DiffEngine().compare_text(left_content, right_content), output_path,
\*             create_backup_before_merge = create_backup_before_merge);
\* io_error: write_file raises
MergeFiles(create_backup_before_merge, io_error) ==
    /\ fo_pc = "input"
    /\ LET diff == compare_text(NoOptions, fo_left, fo_right)
           backed_up == create_backup_before_merge /\ fo_output # NoFile
       IN  /\ fo_backup' = IF backed_up THEN fo_output ELSE fo_backup
           /\ fo_output' = IF io_error THEN fo_output
                           ELSE MergedContent(fo_left, fo_right, diff)
           /\ fo_result' = IF io_error
                           THEN MergeResult(FALSE, NoPath, NoPath, WriteError)
                           ELSE MergeResult(TRUE, OutputPath,
                                            IF backed_up THEN BackupPath ELSE NoPath, <<>>)
    /\ fo_pc' = "merged"
    /\ UNCHANGED <<fo_left, fo_right, not_fo_vars>>

FileOpsNext ==
    \/ \E create_backup_before_merge, io_error \in BOOLEAN :
            MergeFiles(create_backup_before_merge, io_error)

SpecFileOps == FileOpsInit /\ [][FileOpsNext]_vars

-----------------------------------------------------------------------------
(* UndoRedoManager, utils/file_ops.py 289-393.  The two stacks are lists    *)
(* whose last element is the top.                                           *)

\* None, where a snapshot is expected
NoSnapshot == [none |-> TRUE]

\* lines 321-327: the dict a snapshot call builds
SnapshotDict(action_type, left_content, right_content, description, timestamp) ==
    [action_type |-> action_type, left_content |-> left_content,
     right_content |-> right_content, description |-> description,
     timestamp |-> timestamp]

Stacks(undo_stack, redo_stack) == [undo_stack |-> undo_stack, redo_stack |-> redo_stack]

\* a history that is never trimmed
Untrimmed(undo_stack, max_history) == undo_stack

\* lines 333-334: the oldest entry goes when the stack is over the limit
Trimmed(undo_stack, max_history) ==
    IF Len(undo_stack) > max_history THEN Tail(undo_stack) ELSE undo_stack

\* a redo stack that outlives a snapshot
KeptRedo(redo_stack) == redo_stack

\* line 330: self._redo_stack.clear()
ClearedRedo(redo_stack) == <<>>

\* UndoRedoManager.snapshot, lines 306-334, given the dict it builds
snapshot(st, entry, max_history) ==
    Stacks(Trimmed(Append(st.undo_stack, entry), max_history), ClearedRedo(st.redo_stack))

\* UndoRedoManager.can_undo, can_redo
can_undo(st) == Len(st.undo_stack) > 0

can_redo(st) == Len(st.redo_stack) > 0

\* list.pop(): the last element and the list without it
Pop(stack) == [item |-> stack[Len(stack)], rest |-> SubSeq(stack, 1, Len(stack) - 1)]

\* UndoRedoManager.undo, lines 344-359: the stacks and the value returned
undo(st) ==
    IF ~can_undo(st) THEN [stacks |-> st, returned |-> NoSnapshot]
    ELSE LET popped == Pop(st.undo_stack)
         IN  [stacks |-> Stacks(popped.rest, Append(st.redo_stack, popped.item)),
              returned |-> IF popped.rest # <<>>
                           THEN popped.rest[Len(popped.rest)] ELSE NoSnapshot]

\* a redo that takes the oldest undone snapshot
redo_oldest(st) ==
    IF ~can_redo(st) THEN [stacks |-> st, returned |-> NoSnapshot]
    ELSE [stacks |-> Stacks(Append(st.undo_stack, Head(st.redo_stack)), Tail(st.redo_stack)),
          returned |-> Head(st.redo_stack)]

\* UndoRedoManager.redo, lines 361-372
redo(st) ==
    IF ~can_redo(st) THEN [stacks |-> st, returned |-> NoSnapshot]
    ELSE LET popped == Pop(st.redo_stack)
         IN  [stacks |-> Stacks(Append(st.undo_stack, popped.item), popped.rest),
              returned |-> popped.item]

\* UndoRedoManager.clear, lines 386-389
clear(st) == Stacks(<<>>, <<>>)

\* the manager's two stacks
Manager == Stacks(_undo_stack, _redo_stack)

\* one call in the record of the calls made
Call(op, returned) == [op |-> op, returned |-> returned]

\* UndoRedoManager.__init__(max_history)
HistoryInit ==
    /\ _undo_stack = <<>>
    /\ _redo_stack = <<>>
    /\ _max_history \in 0..MaxHistory
    /\ history_calls = <<>>
    /\ history_before = <<>>
    /\ DiffIdle
    /\ MergeIdle
    /\ SyncIdle
    /\ AlignIdle
    /\ DirIdle
    /\ FileOpsIdle
    /\ InlineIdle

\* the stacks and the record of calls after a call that returned `returned`
CallMade(op, after, returned) ==
    /\ Len(history_calls) < MaxCalls
    /\ _undo_stack' = after.undo_stack
    /\ _redo_stack' = after.redo_stack
    /\ history_calls' = Append(history_calls, Call(op, returned))
    /\ history_before' = Append(history_before, Manager)
    /\ UNCHANGED <<_max_history, not_history_vars>>

\* manager.snapshot("edit", text, text, description); the clock gives the
\* n-th call the timestamp n
TakeSnapshot(text, description) ==
    LET entry == SnapshotDict("edit", text, text, description, Len(history_calls) + 1)
    IN  CallMade("snapshot", snapshot(Manager, entry, _max_history), entry)

\* manager.undo()
Undo == CallMade("undo", undo(Manager).stacks, undo(Manager).returned)

\* manager.redo()
Redo == CallMade("redo", redo(Manager).stacks, redo(Manager).returned)

\* manager.clear()
Clear == CallMade("clear", clear(Manager), NoSnapshot)

\* the texts and descriptions snapshots are taken with
SnapshotTexts == { <<"v">> }

SnapshotDescriptions == { <<"E", "d", "i", "t">> }

HistoryNext ==
    \/ \E text \in SnapshotTexts, description \in SnapshotDescriptions :
            TakeSnapshot(text, description)
    \/ Undo
    \/ Redo
    \/ Clear

SpecHistory == HistoryInit /\ [][HistoryNext]_vars

-----------------------------------------------------------------------------
(* InlineDiffResult.from_lines, diff_engine.py 530-602, with                *)
(* DiffEngine.compare_char_level, lines 233-256.                            *)

\* text[i1:i2] for an opcode's bounds
Chunk(text, i1, i2) == SubSeq(text, i1 + 1, i2)

\* DiffEngine.compare_char_level: (text1_chunk, text2_chunk, diff_type)
compare_char_level(text1, text2) ==
    Bind(get_opcodes(text1, text2), LAMBDA ops :
        [k \in 1..Len(ops) |->
            CASE ops[k].tag = "equal" ->
                    <<Chunk(text1, ops[k].i1, ops[k].i2), Chunk(text2, ops[k].j1, ops[k].j2), "equal">>
              [] ops[k].tag = "insert" ->
                    <<<<>>, Chunk(text2, ops[k].j1, ops[k].j2), "insert">>
              [] ops[k].tag = "delete" ->
                    <<Chunk(text1, ops[k].i1, ops[k].i2), <<>>, "delete">>
              [] ops[k].tag = "replace" ->
                    <<Chunk(text1, ops[k].i1, ops[k].i2), Chunk(text2, ops[k].j1, ops[k].j2), "replace">>])

\* sum(len(c[0]) for c in inline_result[:d_idx]), d_idx 0-based
RECURSIVE ChunkOffset(_, _)
ChunkOffset(char_diff, d_idx) ==
    IF d_idx = 0 THEN 0
    ELSE ChunkOffset(char_diff, d_idx - 1) + Len(char_diff[d_idx][1])

\* lines 573-578: the span (pos, pos + len(r_chunk)) of every replace chunk
InlineSpans(line, right_line) ==
    Bind(compare_char_level(line, right_line), LAMBDA char_diff :
        Bind(SelectSeq([k \in 1..Len(char_diff) |-> k],
                       LAMBDA k : char_diff[k][3] = "replace"), LAMBDA replaced :
            [n \in 1..Len(replaced) |->
                LET pos == ChunkOffset(char_diff, replaced[n] - 1)
                IN  <<pos, pos + Len(char_diff[replaced[n]][2])>>]))

InlineDiffLine(left_text, right_text, diff_type, inline_diffs) ==
    [left_text |-> left_text, right_text |-> right_text, diff_type |-> diff_type,
     left_inline_diffs |-> inline_diffs, right_inline_diffs |-> inline_diffs]

\* lines 569-586: the line made for the idx-th left line of a replace block
InlineReplaceLine(op, idx, left, right) ==
    LET line == left[op.i1 + idx + 1]
        has_right == op.j1 + idx < Len(right)
    IN  InlineDiffLine(line,
                       IF has_right THEN right[op.j1 + idx + 1] ELSE <<>>,
                       "replace",
                       IF has_right THEN InlineSpans(line, right[op.j1 + idx + 1]) ELSE <<>>)

\* lines 543-597: the InlineDiffLines appended for one opcode
InlineOpcode(op, left, right) ==
    CASE op.tag = "equal" ->
            [k \in 1..(op.i2 - op.i1) |->
                InlineDiffLine(left[op.i1 + k], left[op.i1 + k], "equal", <<>>)]
      [] op.tag = "insert" ->
            [k \in 1..(op.j2 - op.j1) |->
                InlineDiffLine(<<>>, right[op.j1 + k], "insert", <<>>)]
      [] op.tag = "delete" ->
            [k \in 1..(op.i2 - op.i1) |->
                InlineDiffLine(left[op.i1 + k], <<>>, "delete", <<>>)]
      [] op.tag = "replace" ->
            [k \in 1..(op.i2 - op.i1) |-> InlineReplaceLine(op, k - 1, left, right)]
            \o (IF op.i2 - op.i1 < op.j2 - op.j1
                THEN [k \in 1..(op.j2 - op.j1 - (op.i2 - op.i1)) |->
                        InlineDiffLine(<<>>, right[op.j1 + (op.i2 - op.i1) + k],
                                       "insert", <<>>)]
                ELSE <<>>)

RECURSIVE InlineLines(_, _, _)
InlineLines(ops, left, right) ==
    IF ops = <<>> THEN <<>>
    ELSE InlineOpcode(Head(ops), left, right) \o InlineLines(Tail(ops), left, right)

\* the number of lines of one of the given types
CountTypes(lines, types) == Cardinality({k \in 1..Len(lines) : lines[k].diff_type \in types})

\* InlineDiffResult.from_lines.  The three counters are incremented as each
\* line is appended: left_count with every equal, delete and replace line,
\* right_count with every equal, insert and replace line, change_count with
\* every line that is not equal.
inline_from_lines(left, right, opts) ==
    Bind(Preprocessed(left, opts), LAMBDA l :
    Bind(Preprocessed(right, opts), LAMBDA r :
    Bind(get_opcodes(l, r), LAMBDA ops :
    Bind(InlineLines(ops, l, r), LAMBDA diff_lines :
        [lines |-> diff_lines,
         left_line_count |-> CountTypes(diff_lines, {"equal", "delete", "replace"}),
         right_line_count |-> CountTypes(diff_lines, {"equal", "insert", "replace"}),
         change_count |-> CountTypes(diff_lines, {"insert", "delete", "replace"})]))))

\* the lines given to the inline diff
InlineLineSet == { <<"a">>, <<"a", "b">>, <<"c">> }

InlineInit ==
    /\ inline_left \in SeqsUpTo(InlineLineSet, MaxLines)
    /\ inline_right \in SeqsUpTo(InlineLineSet, MaxLines)
    /\ inline_options \in {NoOptions, IgnoreOptions(FALSE, TRUE, FALSE, FALSE)}
    /\ inline_result = <<>>
    /\ inline_pc = "input"
    /\ DiffIdle
    /\ MergeIdle
    /\ SyncIdle
    /\ AlignIdle
    /\ DirIdle
    /\ FileOpsIdle
    /\ HistoryIdle

\* InlineDiffResult.from_lines(left_lines, right_lines, ignore_options)
InlineFromLines ==
    /\ inline_pc = "input"
    /\ inline_result' = inline_from_lines(inline_left, inline_right, inline_options)
    /\ inline_pc' = "done"
    /\ UNCHANGED <<inline_left, inline_right, inline_options, not_inline_vars>>

InlineNext ==
    \/ InlineFromLines

SpecInline == InlineInit /\ [][InlineNext]_vars

-----------------------------------------------------------------------------
(* Applying a unified diff to the left list, the way patch reads one: two  *)
(* file header lines, then hunks, each a '@@' line whose ranges say where  *)
(* the hunk starts in the left list and how many old and new lines follow. *)

\* int(text) for a string of digits
RECURSIVE ParseInt(_)
ParseInt(text) ==
    IF text = <<>> THEN 0
    ELSE 10 * ParseInt(SubSeq(text, 1, Len(text) - 1))
         + ((CHOOSE d \in 1..10 : DigitChars[d] = text[Len(text)]) - 1)

\* 'start' or 'start,length' read back
ParseRange(text) ==
    LET parts == Split(text, <<",">>)
    IN  [start |-> ParseInt(parts[1]),
         length |-> IF Len(parts) = 1 THEN 1 ELSE ParseInt(parts[2])]

\* '@@ -old +new @@' read back
ParseHunkHeader(line) ==
    LET fields == Split(line, <<" ">>)
    IN  [old |-> ParseRange(Tail(fields[2])), new |-> ParseRange(Tail(fields[3]))]

PatchRejected == << <<"r", "e", "j", "e", "c", "t", "e", "d">> >>

RECURSIVE ApplyHunks(_, _, _, _, _)
RECURSIVE ApplyBody(_, _, _, _, _, _, _)

\* the hunk whose header is out[k]; pos left lines are consumed, res is written
ApplyHunks(left, out, k, pos, res) ==
    IF k > Len(out) THEN res \o Slice(left, pos, Len(left))
    ELSE LET h == ParseHunkHeader(out[k])
             start == IF h.old.length = 0 THEN h.old.start ELSE h.old.start - 1
         IN  IF start < pos \/ start > Len(left) THEN PatchRejected
             ELSE ApplyBody(left, out, k + 1, h.old.length, h.new.length, start,
                            res \o Slice(left, pos, start))

\* the body line out[k], with old_left old lines and new_left new lines to come
ApplyBody(left, out, k, old_left, new_left, pos, res) ==
    IF old_left = 0 /\ new_left = 0 THEN ApplyHunks(left, out, k, pos, res)
    ELSE IF k > Len(out) \/ out[k] = <<>> THEN PatchRejected
    ELSE LET mark == out[k][1]
         IN  IF mark = " " /\ old_left > 0 /\ new_left > 0 /\ pos < Len(left)
             THEN ApplyBody(left, out, k + 1, old_left - 1, new_left - 1, pos + 1,
                            Append(res, left[pos + 1]))
             ELSE IF mark = "-" /\ old_left > 0 /\ pos < Len(left)
             THEN ApplyBody(left, out, k + 1, old_left - 1, new_left, pos + 1, res)
             ELSE IF mark = "+" /\ new_left > 0
             THEN ApplyBody(left, out, k + 1, old_left, new_left - 1, pos,
                            Append(res, Tail(out[k])))
             ELSE PatchRejected

ApplyPatch(left, out) ==
    IF out = <<>> THEN left ELSE ApplyHunks(left, out, 3, 0, <<>>)

-----------------------------------------------------------------------------
(* Claims about the line differ, checked under SpecDiff. *)

Compared == diff_pc = "compared"

Plain == ignore_options = NoOptions

Lines == diff_result.lines

LinesOfType(type) == {i \in 1..Len(Lines) : Lines[i].type = type}

\* the opcodes the matcher of the last compare returned
LastOpcodes ==
    get_opcodes(Preprocessed(left_lines, ignore_options),
                Preprocessed(right_lines, ignore_options))

OpcodesOfTag(ops, tag) == {k \in 1..Len(ops) : ops[k].tag = tag}

RECURSIVE SumOver(_, _)
SumOver(S, f) ==
    IF S = {} THEN 0
    ELSE LET x == CHOOSE x \in S : TRUE IN f[x] + SumOver(S \ {x}, f)

\* C1: comparing a list with itself gives change_count 0 and one Equal
\* DiffLine per line, the i-th numbered i on both sides.
C1_IdenticalNumbered ==
    (Compared /\ Plain /\ left_lines = right_lines) =>
        /\ diff_result.change_count = 0
        /\ Len(Lines) = Len(left_lines)
        /\ \A i \in 1..Len(Lines) :
              /\ Lines[i].type = "equal"
              /\ Lines[i].left_line_num = i
              /\ Lines[i].right_line_num = i

\* right = left + B for some B
IsExtension(left, right) ==
    Len(left) <= Len(right) /\ SubSeq(right, 1, Len(left)) = left

\* C2: diff(A, A+B) has change_count |B|, A's lines Equal and then B's lines
\* Insert; diff(A+B, A) has change_count |B|, A's lines Equal and then B's
\* lines Delete.
C2_AppendedLines ==
    /\ (Compared /\ IsExtension(left_lines, right_lines)) =>
          /\ diff_result.change_count = Len(right_lines) - Len(left_lines)
          /\ Len(Lines) = Len(right_lines)
          /\ LinesOfType("equal") = 1..Len(left_lines)
          /\ LinesOfType("insert") = (Len(left_lines) + 1)..Len(right_lines)
    /\ (Compared /\ IsExtension(right_lines, left_lines)) =>
          /\ diff_result.change_count = Len(left_lines) - Len(right_lines)
          /\ Len(Lines) = Len(left_lines)
          /\ LinesOfType("equal") = 1..Len(right_lines)
          /\ LinesOfType("delete") = (Len(right_lines) + 1)..Len(left_lines)

\* C2 witness: lines were appended to a non-empty list, one of them a repeat
\* of a line of that list, and lines were cut from another
C2_Witness ==
    /\ Compared /\ Plain
    /\ left_lines # <<>>
    /\ Len(right_lines) = Len(left_lines) + 2
    /\ IsExtension(left_lines, right_lines)
    /\ right_lines[Len(left_lines) + 1] = left_lines[1]
    /\ diff_result.change_count = 2

\* C3: change_count = inserted lines + deleted lines + replace opcodes.
C3_ChangeCount ==
    Compared =>
        LET ops == LastOpcodes
            inserts == OpcodesOfTag(ops, "insert")
            deletes == OpcodesOfTag(ops, "delete")
        IN  diff_result.change_count =
                SumOver(inserts, [k \in inserts |-> ops[k].j2 - ops[k].j1])
              + SumOver(deletes, [k \in deletes |-> ops[k].i2 - ops[k].i1])
              + Cardinality(OpcodesOfTag(ops, "replace"))

\* C3 witness: a replace opcode over more than one line beside a deleted line
C3_Witness ==
    /\ Compared
    /\ diff_result.change_count = 2
    /\ LET ops == LastOpcodes
       IN  /\ \E k \in OpcodesOfTag(ops, "replace") : ops[k].j2 - ops[k].j1 >= 2
           /\ OpcodesOfTag(ops, "delete") # {}

\* C4: without ignore options the line counts are the lengths of the lists.
C4_LineCounts ==
    (Compared /\ Plain) =>
        /\ diff_result.left_line_count = Len(left_lines)
        /\ diff_result.right_line_count = Len(right_lines)

LeftNumbered == {i \in 1..Len(Lines) : Lines[i].left_line_num # NoLine}

RightNumbered == {i \in 1..Len(Lines) : Lines[i].right_line_num # NoLine}

\* C5 as stated: the line counts are the numbers of DiffLines with a left /
\* right number, and change_count is the number of non-Equal DiffLines.
C5_CountsPerLine ==
    Compared =>
        /\ diff_result.left_line_count = Cardinality(LeftNumbered)
        /\ diff_result.right_line_count = Cardinality(RightNumbered)
        /\ diff_result.change_count =
              Cardinality({i \in 1..Len(Lines) : Lines[i].type # "equal"})

\* the first DiffLines of the maximal runs of Replace DiffLines
ReplaceRuns ==
    {i \in LinesOfType("replace") : i = 1 \/ Lines[i - 1].type # "replace"}

\* C5 amended: the line counts are the numbers of DiffLines with a left /
\* right number, and change_count is the number of Insert and Delete
\* DiffLines plus the number of maximal runs of Replace DiffLines.
C5_CountsPerRun ==
    Compared =>
        /\ diff_result.left_line_count = Cardinality(LeftNumbered)
        /\ diff_result.right_line_count = Cardinality(RightNumbered)
        /\ diff_result.change_count =
              Cardinality(LinesOfType("insert")) + Cardinality(LinesOfType("delete"))
              + Cardinality(ReplaceRuns)

\* C5 witness: an Equal DiffLine of an empty line, which carries no number,
\* beside a replace run of three DiffLines
C5_Witness ==
    /\ Compared
    /\ \E i \in LinesOfType("equal") : Lines[i].left_line_num = NoLine
    /\ Cardinality(LinesOfType("replace")) = 3
    /\ Cardinality(ReplaceRuns) = 1
    /\ diff_result.change_count = 1

Elements(s) == {s[i] : i \in 1..Len(s)}

\* C6: the content of every DiffLine is a line of the caller, as passed.
C6_OriginalContent ==
    Compared =>
        \A i \in 1..Len(Lines) :
            Lines[i].content \in Elements(left_lines) \cup Elements(right_lines)

HunkHeaders == {k \in 3..Len(unified) : StartsWith(unified[k], <<"@", "@", " ", "-">>)}

\* C7: applying the unified diff to the left list gives the right list.
C7_PatchGivesRight ==
    diff_pc = "unified" => ApplyPatch(left_lines, unified) = right_lines

\* C7 witness: a diff of two hunks, the second one a pure insertion
C7_Witness ==
    /\ diff_pc = "unified"
    /\ context_n = 0
    /\ Cardinality(HunkHeaders) = 2
    /\ \E k \in HunkHeaders : ParseHunkHeader(unified[k]).old.length = 0
    /\ ApplyPatch(left_lines, unified) = right_lines

-----------------------------------------------------------------------------
(* Claims about the merge session, checked under SpecMerge. *)

MarkerLine(line) ==
    \/ StartsWith(line, StartMarker)
    \/ StartsWith(line, MiddleMarker)
    \/ StartsWith(line, EndMarker)

MergedLines == Split(merged_content, Newline)

NoMarkerLines == \A i \in 1..Len(MergedLines) : ~MarkerLine(MergedLines[i])

\* C8 as stated: from any text, once conflicts were resolved and none is
\* tracked, is_fully_resolved() holds and no marker line is left.
C8_NoMarkersLeft ==
    (resolves >= 1 /\ conflicts = <<>>) => (is_fully_resolved /\ NoMarkerLines)

\* the marker lines form complete blocks that do not nest: every start marker
\* is closed by an end marker before the next start marker, and no separator
\* or end marker stands outside a block
RECURSIVE BlocksComplete(_, _, _)
BlocksComplete(lines, i, open) ==
    IF i > Len(lines) THEN ~open
    ELSE IF StartsWith(lines[i], StartMarker)
    THEN ~open /\ BlocksComplete(lines, i + 1, TRUE)
    ELSE IF StartsWith(lines[i], MiddleMarker)
    THEN open /\ BlocksComplete(lines, i + 1, open)
    ELSE IF StartsWith(lines[i], EndMarker)
    THEN open /\ BlocksComplete(lines, i + 1, FALSE)
    ELSE BlocksComplete(lines, i + 1, open)

LoadedWellFormed == BlocksComplete(Split(loaded_content, Newline), 1, FALSE)

\* C8 amended: from a text whose marker lines form complete, non-nested
\* blocks, once no conflict is tracked is_fully_resolved() holds and no
\* marker line is left.
C8_NoMarkersLeftWellFormed ==
    (LoadedWellFormed /\ conflicts = <<>>) => (is_fully_resolved /\ NoMarkerLines)

\* C8 witness: two conflicts of a well-formed text were resolved, none is left
C8_Witness ==
    /\ LoadedWellFormed
    /\ resolves = 2
    /\ conflicts = <<>>
    /\ is_fully_resolved
    /\ NoMarkerLines

\* a start marker, lines X, one separator, lines Y, an end marker
PlainBlock(block) ==
    /\ Len(block) >= 3
    /\ StartsWith(block[1], StartMarker)
    /\ StartsWith(block[Len(block)], EndMarker)
    /\ Cardinality({m \in 2..(Len(block) - 1) : MarkerLine(block[m])}) = 1
    /\ \E m \in 2..(Len(block) - 1) : StartsWith(block[m], MiddleMarker)

SeparatorOf(block) ==
    CHOOSE m \in 2..(Len(block) - 1) : StartsWith(block[m], MiddleMarker)

LeftOf(block) == Join(SubSeq(block, 2, SeparatorOf(block) - 1), Newline)

RightOf(block) == Join(SubSeq(block, SeparatorOf(block) + 1, Len(block) - 1), Newline)

BlockOf(lines, c) == SubSeq(lines, c.start_line + 1, c.end_line + 1)

\* the text the claim expects after the conflict c of text is resolved
ExpectedAfter(text, c, resolution) ==
    LET lines == Split(text, Newline)
        block == BlockOf(lines, c)
        chosen == IF resolution = "left" THEN LeftOf(block)
                  ELSE IF resolution = "right" THEN RightOf(block)
                  ELSE LeftOf(block) \o Newline \o RightOf(block)
    IN  Join(SubSeq(lines, 1, c.start_line) \o <<chosen>>
             \o SubSeq(lines, c.end_line + 2, Len(lines)), Newline)

\* C9: a block <<<<<<< X ======= Y >>>>>>> is recorded with left_content X
\* and right_content Y, and resolving it puts X (Left), Y (Right) or X then
\* Y (Both) in place of the block.
C9_LeftAndRightContent ==
    /\ \A i \in 1..Len(conflicts) :
          LET block == BlockOf(MergedLines, conflicts[i])
          IN  PlainBlock(block) =>
                 /\ conflicts[i].left_content = LeftOf(block)
                 /\ conflicts[i].right_content = RightOf(block)
    /\ (last_op.op = "resolve" /\ last_op.done
          /\ PlainBlock(BlockOf(Split(last_op.before, Newline), last_op.conflict))) =>
             merged_content =
                ExpectedAfter(last_op.before, last_op.conflict, last_op.resolution)

\* C10: no tracked ConflictMarker carries a resolution, so is_fully_resolved()
\* holds exactly when the list is empty and count_unresolved() equals
\* count_conflicts().
C10_NoTrackedResolution ==
    /\ \A i \in 1..Len(conflicts) : ~has_resolution(conflicts[i])
    /\ is_fully_resolved <=> (conflicts = <<>>)
    /\ count_unresolved = count_conflicts

\* C10 witness: a conflict was resolved and another one is still tracked
C10_Witness ==
    /\ last_op.op = "resolve"
    /\ last_op.done
    /\ has_resolution([last_op.conflict EXCEPT !.resolution = last_op.resolution])
    /\ conflicts # <<>>
    /\ ~is_fully_resolved

-----------------------------------------------------------------------------
(* Claims about the folder synchronizer, checked under SpecSync. *)

\* both root paths are directories
BothDirectories == sync_left.is_dir /\ sync_right.is_dir

\* the planned operations / conflicts of the last preview for a relative path
OperationsFor(p) ==
    {i \in 1..Len(sync_return.operations) : sync_return.operations[i].source_path[2] = p}

ConflictsFor(p) ==
    {j \in 1..Len(sync_return.conflicts) : sync_return.conflicts[j].path = p}

\* exactly one operation is planned for p: a copy from one side to the other
OneCopy(p, from, to) ==
    /\ Cardinality(OperationsFor(p)) = 1
    /\ \A i \in OperationsFor(p) :
          /\ sync_return.operations[i].source_path = <<from, p>>
          /\ sync_return.operations[i].destination_path = <<to, p>>

\* C11: a bidirectional preview_sync returns, for a path on one side only,
\* one Copy toward the missing side; for a file on both sides with
\* different contents, one 'Content differs' conflict and no operation; for
\* identical files nothing.
C11_BidirectionalPreview ==
    (/\ sync_pc = "previewed"
     /\ sync_call.direction = BIDIRECTIONAL
     /\ sync_call.ignore_patterns = <<>>
     /\ BothDirectories) =>
        /\ sync_return.raised = "None"
        /\ \A p \in SyncPaths :
              LET l == sync_left.entries[p]
                  r == sync_right.entries[p]
              IN  /\ (l.kind # "absent" /\ r.kind = "absent") =>
                        (OneCopy(p, "left", "right") /\ ConflictsFor(p) = {})
                  /\ (l.kind = "absent" /\ r.kind # "absent") =>
                        (OneCopy(p, "right", "left") /\ ConflictsFor(p) = {})
                  /\ (l.kind = "file" /\ r.kind = "file" /\ l.content # r.content) =>
                        /\ OperationsFor(p) = {}
                        /\ Cardinality(ConflictsFor(p)) = 1
                        /\ \A j \in ConflictsFor(p) :
                              sync_return.conflicts[j].reason = "Content differs"
                  /\ (l.kind = "file" /\ r.kind = "file" /\ l.content = r.content) =>
                        (OperationsFor(p) = {} /\ ConflictsFor(p) = {})

\* C12: after a sync_folders run without conflicts on two directories, a
\* preview_sync in the same direction on the trees it left returns zero
\* operations.
C12_SecondRunNoOperations ==
    (sync_pc = "synced" /\ BothDirectories /\ sync_return.result.conflicts = <<>>) =>
        LET again == preview_sync(sync_left, sync_right, sync_call.direction,
                                  sync_call.ignore_patterns)
        IN  again.raised = "None" /\ again.operations = <<>>

\* C13: sync_folders on two directories returns success == true, whatever
\* single copies fail; success == false is for a root that is no directory.
C13_CopyFailureNotFatal ==
    sync_pc = "synced" => (sync_return.result.success <=> BothDirectories)

\* the side a policy lets win for a file that differs: "left", "right", or
\* "none" when the recorded values do not decide
Winner(policy, l, r) ==
    LET lv == IF policy = NEWER_WINS THEN l.modified ELSE Len(l.content)
        rv == IF policy = NEWER_WINS THEN r.modified ELSE Len(r.content)
    IN  IF lv > rv THEN "left" ELSE IF rv > lv THEN "right" ELSE "none"

\* C14: with NewerWins the side with the later modified time is copied over
\* the other side, with LargerWins the side with the larger size.
C14_NewerLargerWins ==
    (/\ sync_pc = "synced"
     /\ sync_call.direction = BIDIRECTIONAL
     /\ sync_call.conflict_resolution \in {NEWER_WINS, LARGER_WINS}
     /\ BothDirectories) =>
        \A p \in SyncPaths :
           LET l == sync_return.before.left.entries[p]
               r == sync_return.before.right.entries[p]
               winner == Winner(sync_call.conflict_resolution, l, r)
           IN  (l.kind = "file" /\ r.kind = "file" /\ l.content # r.content
                  /\ ~Ignored(p, sync_call.ignore_patterns)) =>
                  /\ winner = "left" => sync_right.entries[p] = l
                  /\ winner = "right" => sync_left.entries[p] = r

-----------------------------------------------------------------------------
(* Claims about the line aligner, checked under SpecAlign. *)

\* the replace runs of the aligner's input, as pairs <<first, last>> of positions
AlignRuns ==
    LET lines == align_input.lines
    IN  {r \in (1..Len(lines)) \X (1..Len(lines)) :
            /\ r[1] <= r[2]
            /\ \A k \in r[1]..r[2] : lines[k].type = "replace"
            /\ r[1] = 1 \/ lines[r[1] - 1].type # "replace"
            /\ r[2] = Len(lines) \/ lines[r[2] + 1].type # "replace"}

\* the left / right line numbers of a run of the input
RunLeft(r) == {align_input.lines[k].left_line_num : k \in r[1]..r[2]} \ {NoLine}

RunRight(r) == {align_input.lines[k].right_line_num : k \in r[1]..r[2]} \ {NoLine}

\* the positions of the output whose DiffLine is Equal and carries a line of run r
EqualFromRun(r) ==
    {k \in 1..Len(align_output.lines) :
        /\ align_output.lines[k].type = "equal"
        /\ \/ align_output.lines[k].left_line_num \in RunLeft(r)
           \/ align_output.lines[k].right_line_num \in RunRight(r)}

\* C15: for every replace run of the input with left sub-block L and right
\* sub-block R, the output of align_lines holds at most min(|L|, |R|) Equal
\* DiffLines made from the lines of that run.
C15_EqualAtMostMin ==
    align_pc = "aligned" =>
        \A r \in AlignRuns :
            Cardinality(EqualFromRun(r))
                <= Min(Cardinality(RunLeft(r)), Cardinality(RunRight(r)))

\* the positions of the output that carry left line number n / right line number n
OutputLeft(n) == {k \in 1..Len(align_output.lines) : align_output.lines[k].left_line_num = n}

OutputRight(n) == {k \in 1..Len(align_output.lines) : align_output.lines[k].right_line_num = n}

\* C16: align_lines uses every line of a replace run exactly once: each left
\* line number of the input is on exactly one DiffLine of the output and each
\* right line number on exactly one.
C16_EveryLineOnce ==
    align_pc = "aligned" =>
        \A r \in AlignRuns :
            /\ \A n \in RunLeft(r) : Cardinality(OutputLeft(n)) = 1
            /\ \A n \in RunRight(r) : Cardinality(OutputRight(n)) = 1

-----------------------------------------------------------------------------
(* Claims about the directory comparison, checked under SpecDir. *)

\* the characters of the model's names in code point order
NameChars == <<".", "a", "b", "c", "d", "t", "x">>

CodePoint(c) == CHOOSE k \in 1..Len(NameChars) : NameChars[k] = c

\* s < t for two Python strings
RECURSIVE LexLess(_, _)
LexLess(s, t) ==
    IF t = <<>> THEN FALSE
    ELSE IF s = <<>> THEN TRUE
    ELSE IF Head(s) # Head(t) THEN CodePoint(Head(s)) < CodePoint(Head(t))
    ELSE LexLess(Tail(s), Tail(t))

BothListed == dir_left.is_dir /\ dir_right.is_dir

\* C17: on two existing directories compare_directories returns exactly one
\* entry per name of the union of the two listings, in lexicographic order of
\* the names, and no entry is both only-left and only-right.
C17_OneEntryPerName ==
    (dir_pc = "compared" /\ BothListed) =>
        LET entries == dir_return.entries
        IN  /\ {entries[k].name : k \in 1..Len(entries)}
                    = listdir(dir_left) \cup listdir(dir_right)
            /\ \A k \in 1..(Len(entries) - 1) : LexLess(entries[k].name, entries[k + 1].name)
            /\ \A k \in 1..Len(entries) :
                    ~(entries[k].is_only_left /\ entries[k].is_only_right)

\* a comparison that returned several entries, among them one of each kind:
\* only left, only right, on both sides
C17_Witness ==
    /\ dir_pc = "compared"
    /\ BothListed
    /\ Len(dir_return.entries) >= 3
    /\ \E i, j, k \in 1..Len(dir_return.entries) :
            /\ dir_return.entries[i].is_only_left
            /\ dir_return.entries[j].is_only_right
            /\ dir_return.entries[k].left_path # NoPath
            /\ dir_return.entries[k].right_path # NoPath

\* the failure of open() or read() on what a directory holds under a name
ReadFails(entry) == entry.kind # "file"

\* C18: for a name on both sides, two files are modified exactly when their
\* contents differ or one cannot be read, and two directories give
\* is_directory true and is_modified false; an entry on one side only is
\* never modified.
C18_ModifiedIffContentsDiffer ==
    (dir_pc = "compared" /\ BothListed) =>
        \A k \in 1..Len(dir_return.entries) :
            LET e == dir_return.entries[k]
                l == dir_left.entries[e.name]
                r == dir_right.entries[e.name]
                IsFile(x) == x.kind \in {"file", "unreadable"}
            IN  /\ (IsFile(l) /\ IsFile(r)) =>
                        (e.is_modified <=>
                            (ReadFails(l) \/ ReadFails(r) \/ l.content # r.content))
                /\ (l.kind = "dir" /\ r.kind = "dir") => (e.is_directory /\ ~e.is_modified)
                /\ (e.is_only_left \/ e.is_only_right) => ~e.is_modified

\* C19: when a path is not an existing directory, the outcome of
\* compare_directories differs from that of comparing two empty directories.
C19_BadPathDistinguishable ==
    (dir_pc = "compared" /\ ~BothListed) =>
        dir_return # compare_directories(Folder([p \in SyncPaths |-> Absent]),
                                         Folder([p \in SyncPaths |-> Absent]))

-----------------------------------------------------------------------------
(* Claims about merge_files, checked under SpecFileOps. *)

\* C20: for any two texts and the DiffResult compare_text gives for them,
\* merge_files writes exactly the right text.
C20_MergeWritesRight ==
    (fo_pc = "merged" /\ fo_result.success) => fo_output = fo_right

-----------------------------------------------------------------------------
(* Claims about UndoRedoManager                                             *)

\* the last call made and the stacks before it
LastCall == history_calls[Len(history_calls)]

BeforeLastCall == history_before[Len(history_before)]

Top(stack) == stack[Len(stack)]

\* a snapshot call that found the undo stack full
Overflowed ==
    /\ history_calls # <<>>
    /\ LastCall.op = "snapshot"
    /\ Len(BeforeLastCall.undo_stack) + 1 > _max_history

\* C21: whatever calls were made on UndoRedoManager(max_history = n), the
\* undo stack holds at most n entries, and a snapshot that overflows the
\* limit leaves the former stack without its oldest entry, followed by the
\* new snapshot.
C21_BoundedHistory ==
    /\ Len(_undo_stack) <= _max_history
    /\ Overflowed =>
            _undo_stack = Tail(Append(BeforeLastCall.undo_stack, LastCall.returned))

C21_Witness ==
    /\ Overflowed
    /\ _max_history = 2
    /\ Len(_undo_stack) = 2
    /\ _undo_stack[1] = BeforeLastCall.undo_stack[2]
    /\ _undo_stack[2] = LastCall.returned

\* C22: right after a snapshot call can_redo() is false and, when
\* max_history >= 1, can_undo() is true; right after clear() both are false.
C22_SnapshotEmptiesRedo ==
    history_calls # <<>> =>
        /\ LastCall.op = "snapshot" =>
                /\ ~can_redo(Manager)
                /\ _max_history >= 1 => can_undo(Manager)
        /\ LastCall.op = "clear" => (~can_undo(Manager) /\ ~can_redo(Manager))

C22_Witness ==
    /\ history_calls # <<>>
    /\ LastCall.op = "snapshot"
    /\ can_redo(BeforeLastCall)
    /\ ~can_redo(Manager)
    /\ can_undo(Manager)

\* the calls made are k snapshots, then k undos, then j redos
CallsAre(k, j) ==
    /\ Len(history_calls) = 2 * k + j
    /\ \A i \in 1..k : history_calls[i].op = "snapshot"
    /\ \A i \in (k + 1)..(2 * k) : history_calls[i].op = "undo"
    /\ \A i \in (2 * k + 1)..(2 * k + j) : history_calls[i].op = "redo"

\* after k snapshots and k undos nothing can be undone and something can be
\* redone, and the j-th redo after them returns the j-th snapshot and leaves
\* it on top of the undo stack
InverseMoves(k, j) ==
    /\ j = 0 => (~can_undo(Manager) /\ can_redo(Manager))
    /\ j >= 1 =>
            /\ LastCall.returned = history_calls[j].returned
            /\ can_undo(Manager)
            /\ Top(_undo_stack) = history_calls[j].returned

\* the last two calls were undo() and then redo()
UndoThenRedo ==
    /\ Len(history_calls) >= 2
    /\ history_calls[Len(history_calls) - 1].op = "undo"
    /\ LastCall.op = "redo"

\* the stacks before the undo() that came before the last call
BeforeUndo == history_before[Len(history_before) - 1]

\* C23, as stated: on a new manager k snapshots and k undos leave can_undo()
\* false and can_redo() true, the redos that follow return the snapshots
\* oldest first, each becoming the top of the undo stack, and an undo()
\* followed by a redo() restores both stacks.
C23_Original ==
    /\ \A k \in 1..MaxCalls : \A j \in 0..k : CallsAre(k, j) => InverseMoves(k, j)
    /\ UndoThenRedo => Manager = BeforeUndo

\* C23: the same for 1 <= k <= max_history, and for an undo() that found
\* something to undo.
C23_InverseMoves ==
    /\ \A k \in 1..MaxCalls : \A j \in 0..k :
            (CallsAre(k, j) /\ k <= _max_history) => InverseMoves(k, j)
    /\ (UndoThenRedo /\ can_undo(BeforeUndo)) => Manager = BeforeUndo

C23_Witness ==
    /\ CallsAre(2, 2)
    /\ _max_history = 2
    /\ history_calls[5].returned = history_calls[1].returned
    /\ history_calls[6].returned = history_calls[2].returned
    /\ _undo_stack = <<history_calls[1].returned, history_calls[2].returned>>

\* C24: undo() returns the snapshot it undoes, the top of the undo stack
\* before the call; it returns None exactly when that stack was empty, and
\* then both stacks are as they were.
C24_UndoReturnsUndone ==
    (history_calls # <<>> /\ LastCall.op = "undo") =>
        /\ (LastCall.returned = NoSnapshot) <=> (BeforeLastCall.undo_stack = <<>>)
        /\ LastCall.returned = NoSnapshot => Manager = BeforeLastCall
        /\ LastCall.returned # NoSnapshot =>
                LastCall.returned = Top(BeforeLastCall.undo_stack)

-----------------------------------------------------------------------------
(* Claims about the cursor of a merge session                               *)

\* the last call resolved the current conflict
Resolved == last_op.op = "resolve" /\ last_op.done

\* the tracked conflict the last resolve was made on, as a 0-based index:
\* the conflicts of the text before it are scanned again
ResolvedIndex ==
    LET before == _detect_conflicts(last_op.before).conflicts
    IN  (CHOOSE i \in 1..Len(before) : before[i].start_line = last_op.conflict.start_line) - 1

\* C25: after resolving the current conflict, current_index is
\* min(c, len(conflicts) - 1), c being current_index before the resolve and
\* conflicts the list detected again.
C25_IndexAfterResolve ==
    Resolved => current_index = Min(ResolvedIndex, Len(conflicts) - 1)

\* the cursor is -1 without conflicts and an index of the list otherwise
CursorInRange ==
    IF conflicts = <<>> THEN current_index = -1
    ELSE current_index \in 0..(Len(conflicts) - 1)

\* a step of next() or prev(): one further when that stays in the list, no
\* move otherwise, and the same text and conflicts
CursorStep ==
    /\ last_op'.op = "next" =>
            /\ current_index' = IF current_index + 1 <= Len(conflicts) - 1
                                THEN current_index + 1 ELSE current_index
            /\ UNCHANGED <<merged_content, conflicts>>
    /\ last_op'.op = "prev" =>
            /\ current_index' = IF current_index - 1 >= 0
                                THEN current_index - 1 ELSE current_index
            /\ UNCHANGED <<merged_content, conflicts>>

\* C26: in every state of a merge session current_index is -1 when no
\* conflict is tracked and between 0 and len(conflicts) - 1 otherwise;
\* next() and prev() move it by one inside these bounds, leave it at the
\* last and the first conflict, and change neither merged_content nor the
\* conflicts.
C26_CursorInBounds == [](CursorInRange) /\ [][CursorStep]_vars

C26_Witness ==
    /\ last_op.op = "next"
    /\ last_op.from = 0
    /\ current_index = 1
    /\ Len(conflicts) = 2

\* the number of lines of a text that start with '<<<<<<<'
StartLines(content) ==
    LET lines == Split(content, Newline)
    IN  Cardinality({k \in 1..Len(lines) : StartsWith(lines[k], StartMarker)})

\* C28: whatever text is loaded, the resolves made and the conflicts still
\* tracked never add up to more than the lines of the loaded text that start
\* with '<<<<<<<', and a session whose current conflict is resolved again
\* and again comes to track no conflict.
C28_ResolvingTerminates ==
    /\ [](Len(conflicts) + resolves <= StartLines(loaded_content))
    /\ (last_op.op # "init") ~> (conflicts = <<>>)

C28_Witness ==
    /\ Resolved
    /\ resolves = 2
    /\ conflicts = <<>>
    /\ StartLines(loaded_content) = 2

-----------------------------------------------------------------------------
(* Claims about the matching inside one replace run                         *)

\* the DiffLines _align_replace_block returns when it is called on the first
\* line of run r of the input
BlockResult(r) == _align_replace_block(align_input.lines, align_input.lines[r[1]])

\* the DiffLine of run r with left / right line number n
LeftLineOf(r, n) ==
    align_input.lines[CHOOSE k \in r[1]..r[2] : align_input.lines[k].left_line_num = n]

RightLineOf(r, n) ==
    align_input.lines[CHOOSE k \in r[1]..r[2] : align_input.lines[k].right_line_num = n]

\* the score of left line l and right line r2 of run r
PairScore(r, l, r2) == combined_score(LeftLineOf(r, l), RightLineOf(r, r2))

\* the matched pairs a result starts with, in order: an Equal line carries a
\* pair, and so do a Replace line of the left side and the Replace line of
\* the right side after it
RECURSIVE PairsOf(_)
PairsOf(lines) ==
    IF lines = <<>> THEN <<>>
    ELSE IF lines[1].type = "equal"
    THEN <<[left |-> lines[1].left_line_num, right |-> lines[1].right_line_num,
            equal |-> TRUE, contents |-> <<lines[1].content>>]>>
         \o PairsOf(Tail(lines))
    ELSE IF /\ Len(lines) >= 2
            /\ lines[1].type = "replace" /\ lines[2].type = "replace"
            /\ lines[1].left_line_num # NoLine /\ lines[1].right_line_num = NoLine
            /\ lines[2].right_line_num # NoLine /\ lines[2].left_line_num = NoLine
    THEN <<[left |-> lines[1].left_line_num, right |-> lines[2].right_line_num,
            equal |-> FALSE, contents |-> <<lines[1].content, lines[2].content>>]>>
         \o PairsOf(Tail(Tail(lines)))
    ELSE <<>>

\* the number of DiffLines a list of pairs takes
RECURSIVE PairLines(_)
PairLines(pairs) ==
    IF pairs = <<>> THEN 0
    ELSE (IF Head(pairs).equal THEN 1 ELSE 2) + PairLines(Tail(pairs))

\* the k-th pair scores highest among the pairs free when it is taken, not
\* below 0.3, and is emitted by its score
GreedyPair(r, pairs, k) ==
    LET free_left == RunLeft(r) \ {pairs[j].left : j \in 1..(k - 1)}
        free_right == RunRight(r) \ {pairs[j].right : j \in 1..(k - 1)}
        score == PairScore(r, pairs[k].left, pairs[k].right)
    IN  /\ pairs[k].left \in free_left
        /\ pairs[k].right \in free_right
        /\ \A l \in free_left, r2 \in free_right :
                ~FractionGreater(PairScore(r, l, r2), score)
        /\ ~FractionLess(score, Fraction(3, 10))
        /\ pairs[k].equal <=> FractionGreater(score, Fraction(8, 10))
        /\ pairs[k].contents =
                IF pairs[k].equal THEN <<LeftLineOf(r, pairs[k].left).content>>
                ELSE <<LeftLineOf(r, pairs[k].left).content,
                       RightLineOf(r, pairs[k].right).content>>

\* the result of a run with lines on both sides: greedy pairs, then only
\* unmatched lines, none of which could still be paired at 0.3 or more
GreedyResult(r) ==
    LET lines == BlockResult(r)
        pairs == PairsOf(lines)
        rest == SubSeq(lines, PairLines(pairs) + 1, Len(lines))
        unmatched_left == RunLeft(r) \ {pairs[j].left : j \in 1..Len(pairs)}
        unmatched_right == RunRight(r) \ {pairs[j].right : j \in 1..Len(pairs)}
    IN  /\ \A k \in 1..Len(pairs) : GreedyPair(r, pairs, k)
        /\ \A k \in 1..Len(rest) : rest[k].type \in {"delete", "insert"}
        /\ {rest[k].left_line_num : k \in 1..Len(rest)} \ {NoLine} = unmatched_left
        /\ {rest[k].right_line_num : k \in 1..Len(rest)} \ {NoLine} = unmatched_right
        /\ \A l \in unmatched_left, r2 \in unmatched_right :
                FractionLess(PairScore(r, l, r2), Fraction(3, 10))

\* the result of the call is part of the output of align_lines
InOutput(lines) ==
    \E from \in 0..(Len(align_output.lines) - Len(lines)) :
        SubSeq(align_output.lines, from + 1, from + Len(lines)) = lines

\* C27: the call of _align_replace_block on a replace run with lines on both
\* sides takes, again and again, a pair of highest score among the unmatched
\* pairs, stops when that score is below 0.3, emits a pair of score > 0.8 as
\* one Equal DiffLine with the left content and both numbers and a pair of
\* score from 0.3 to 0.8 as a left Replace and a right Replace, and matches
\* no pair of score below 0.3.
C27_GreedyMatching ==
    align_pc = "aligned" =>
        \A r \in AlignRuns :
            (RunLeft(r) # {} /\ RunRight(r) # {}) =>
                (GreedyResult(r) /\ InOutput(BlockResult(r)))

C27_Witness ==
    /\ align_pc = "aligned"
    /\ \E r \in AlignRuns :
            LET pairs == PairsOf(BlockResult(r))
            IN  /\ Len(pairs) = 2
                /\ pairs[1].equal
                /\ ~pairs[2].equal
                /\ Cardinality(RunLeft(r)) = 3
                /\ InOutput(BlockResult(r))

-----------------------------------------------------------------------------
(* Claims about the inline diff                                             *)

\* the left_text of the lines that carry a left line, in order, and the
\* right_text of the lines that carry a right line
LeftTexts(lines) ==
    LET carrying == SelectSeq(lines, LAMBDA d : d.diff_type \in {"equal", "delete", "replace"})
    IN  [k \in 1..Len(carrying) |-> carrying[k].left_text]

RightTexts(lines) ==
    LET carrying == SelectSeq(lines, LAMBDA d : d.diff_type \in {"equal", "insert", "replace"})
    IN  [k \in 1..Len(carrying) |-> carrying[k].right_text]

\* C29: the lines of InlineDiffResult.from_lines carry every left input line
\* once as left_text and every right input line once as right_text, in
\* order, and left_line_count and right_line_count are the lengths of the
\* two inputs, also for a replace block whose left side is the longer.
C29_EveryInputLineOnce ==
    inline_pc = "done" =>
        /\ LeftTexts(inline_result.lines) = Preprocessed(inline_left, inline_options)
        /\ RightTexts(inline_result.lines) = Preprocessed(inline_right, inline_options)
        /\ inline_result.left_line_count = Len(inline_left)
        /\ inline_result.right_line_count = Len(inline_right)

-----------------------------------------------------------------------------
(* Claims about the symmetry of the directory comparison                    *)

\* the entries of the comparison made with the two directories exchanged
SwappedEntries == compare_directories(dir_right, dir_left).entries

\* C30: comparing (right, left) gives the entry names of comparing
\* (left, right), with is_only_left and is_only_right exchanged and with
\* is_directory and is_modified the same on every entry.
C30_Symmetric ==
    dir_pc = "compared" =>
        /\ Len(SwappedEntries) = Len(dir_return.entries)
        /\ \A k \in 1..Len(dir_return.entries) :
                /\ SwappedEntries[k].name = dir_return.entries[k].name
                /\ SwappedEntries[k].is_only_left = dir_return.entries[k].is_only_right
                /\ SwappedEntries[k].is_only_right = dir_return.entries[k].is_only_left
                /\ SwappedEntries[k].is_directory = dir_return.entries[k].is_directory
                /\ SwappedEntries[k].is_modified = dir_return.entries[k].is_modified

=============================================================================
